---- MODULE Spec2Model ----
(***************************************************************************)
(* Model of the Coder Agent: the two POST /coder/generate entry points     *)
(* (remote storage: coder_agent_routes.py, local: coder_agent_routes_      *)
(* sqlite.py) and the pipeline stages they call (planner, context loader,  *)
(* exemplar finder, code generator, validator, tribal knowledge loader).   *)
(*                                                                         *)
(* Python values are modelled as tagged records [t |-> type, v |-> value]  *)
(* so that a dict returned verbatim from json.loads can hold values of any *)
(* type; an int is JNum(n), a float JFloat(m, e) for m * 10^e.             *)
(* Text that the code inspects character by character (the generated code, *)
(* the project type, a role, what the LLM answers) is a sequence of        *)
(* one-character strings; JsonLoads is the decoder of Python's json        *)
(* module.                                                                 *)
(***************************************************************************)
EXTENDS Integers, Sequences, FiniteSets, TLC

\* ------------------------------------------------------------------ bounds
\* longest flattened section list given to the context loader
MaxSections == 5
\* largest max_exemplars given to the exemplar finder
MaxCap == 4
\* distinct never-seen project types given to the tribal knowledge loader
MaxFreshTypes == 33
\* Requests served by one process before the model stops.
MaxRequests == 1

\* ------------------------------------------------------- Python values
JNull == [t |-> "null", v |-> 0]
JBool(b) == [t |-> "bool", v |-> b]
JNum(n) == [t |-> "num", v |-> n]
JStr(s) == [t |-> "str", v |-> s]
JList(l) == [t |-> "list", v |-> l]
JObj(f) == [t |-> "obj", v |-> f]
\* a float: m * 10^e, with m not a multiple of 10 (0.7 is JFloat(7, -1),
\* 1.0 is JFloat(1, 0), 0.0 is JFloat(0, 0))
JFloat(m, e) == [t |-> "float", v |-> [m |-> m, e |-> e, special |-> "finite"]]
\* float('inf') or float('-inf'), and float('nan')
JInfinity(negative) ==
    [t |-> "float", v |-> [m |-> IF negative THEN -1 ELSE 1, e |-> 0, special |-> "inf"]]
JNaN == [t |-> "float", v |-> [m |-> 0, e |-> 0, special |-> "nan"]]

\* The empty dict {} : a function with an empty domain.
EmptyDict == [k \in {} |-> JNull]

\* Python's bool(x).
PyBool(x) ==
    CASE x.t = "null" -> FALSE
      [] x.t = "bool" -> x.v
      [] x.t = "num" -> x.v # 0
      [] x.t = "float" -> x.v.special # "finite" \/ x.v.m # 0
      [] x.t = "str" -> x.v # ""
      [] x.t = "list" -> Len(x.v) > 0
      [] x.t = "obj" -> DOMAIN x.v # {}

\* dict.get(key, default) on a parsed object.
DictGet(d, key, default) == IF key \in DOMAIN d.v THEN d.v[key] ELSE default

\* ------------------------------------------------------------- text
\* A character is a one-character string; a character with no spelling in
\* a TLA+ string (control characters, the grave accent, everything beyond
\* ASCII) is written U+XXXX, its code point in upper-case hexadecimal.
\* Text is a sequence of characters.

\* the characters of code points 0 to 127, in order
Ascii ==
    <<"U+0000", "U+0001", "U+0002", "U+0003", "U+0004", "U+0005", "U+0006",
      "U+0007", "U+0008", "\t", "\n", "U+000B", "\f", "\r", "U+000E",
      "U+000F", "U+0010", "U+0011", "U+0012", "U+0013", "U+0014", "U+0015",
      "U+0016", "U+0017", "U+0018", "U+0019", "U+001A", "U+001B", "U+001C",
      "U+001D", "U+001E", "U+001F", " ", "!", "\"", "#", "$", "%", "&", "'",
      "(", ")", "*", "+", ",", "-", ".", "/", "0", "1", "2", "3", "4", "5",
      "6", "7", "8", "9", ":", ";", "<", "=", ">", "?", "@", "A", "B", "C",
      "D", "E", "F", "G", "H", "I", "J", "K", "L", "M", "N", "O", "P", "Q",
      "R", "S", "T", "U", "V", "W", "X", "Y", "Z", "[", "\\", "]", "^", "_",
      "U+0060", "a", "b", "c", "d", "e", "f", "g", "h", "i", "j", "k", "l", "m",
      "n", "o", "p", "q", "r", "s", "t", "u", "v", "w", "x", "y", "z", "{",
      "|", "}", "~", "U+007F">>

\* the character of an ASCII code point
Chr(code) == Ascii[code + 1]

\* The characters str.strip() strips (those str.isspace() holds for):
\* code points 9-13, 28-32 and the Unicode spaces.
Whitespace ==
    {Chr(code) : code \in (9..13) \cup (28..32)}
    \cup {"U+0085", "U+00A0", "U+1680", "U+2000", "U+2001", "U+2002", "U+2003",
       "U+2004", "U+2005", "U+2006", "U+2007", "U+2008", "U+2009", "U+200A",
       "U+2028", "U+2029", "U+202F", "U+205F", "U+3000"}

RECURSIVE LStrip(_)
LStrip(s) == IF s # <<>> /\ Head(s) \in Whitespace THEN LStrip(Tail(s)) ELSE s

RECURSIVE RStrip(_)
RStrip(s) ==
    IF s # <<>> /\ s[Len(s)] \in Whitespace THEN RStrip(SubSeq(s, 1, Len(s) - 1)) ELSE s

\* Strip that strips nothing
StripMut(s) == s

\* str.strip()
Strip(s) == RStrip(LStrip(s))

\* ------------------------------------------------------- LLM collaborator
\* call_llm(prompt): raises, returns None, or returns text.
LlmRaise == [kind |-> "raise", text |-> <<>>]
LlmNone == [kind |-> "none", text |-> <<>>]
LlmText(s) == [kind |-> "text", text |-> s]
\* no call made yet
NoLlm == [kind |-> "uncalled", text |-> <<>>]

\* `call_llm(prompt) or ""` for a call that did not raise.
OrEmpty(out) == IF out.kind = "none" THEN <<>> ELSE out.text

\* The documents the planning and validation LLM calls answer with.
\* the empty text
TxtEmpty == <<>>
\* one space
TxtBlank == <<" ">>
\* Sure, here is the plan
TxtProse ==
    <<"S", "u", "r", "e", ",", " ", "h", "e", "r", "e", " ", "i", "s", " ",
      "t", "h", "e", " ", "p", "l", "a", "n">>
\* [1]
TxtArray == <<"[", "1", "]">>
\* 7
TxtNumber == <<"7">>
\* {}
TxtEmptyObj == <<"{", "}">>
\* {"components": [{"name": "a", "description": "d", "priority": 1}], "search_queries": ["q"]}
TxtPlanFull ==
    <<"{", "\"", "c", "o", "m", "p", "o", "n", "e", "n", "t", "s", "\"", ":",
      " ", "[", "{", "\"", "n", "a", "m", "e", "\"", ":", " ", "\"", "a",
      "\"", ",", " ", "\"", "d", "e", "s", "c", "r", "i", "p", "t", "i", "o",
      "n", "\"", ":", " ", "\"", "d", "\"", ",", " ", "\"", "p", "r", "i",
      "o", "r", "i", "t", "y", "\"", ":", " ", "1", "}", "]", ",", " ", "\"",
      "s", "e", "a", "r", "c", "h", "_", "q", "u", "e", "r", "i", "e", "s",
      "\"", ":", " ", "[", "\"", "q", "\"", "]", "}">>
\* {"components": [{"name": "a", "description": "d", "priority": 1}]}
TxtPlanCompsOnly ==
    <<"{", "\"", "c", "o", "m", "p", "o", "n", "e", "n", "t", "s", "\"", ":",
      " ", "[", "{", "\"", "n", "a", "m", "e", "\"", ":", " ", "\"", "a",
      "\"", ",", " ", "\"", "d", "e", "s", "c", "r", "i", "p", "t", "i", "o",
      "n", "\"", ":", " ", "\"", "d", "\"", ",", " ", "\"", "p", "r", "i",
      "o", "r", "i", "t", "y", "\"", ":", " ", "1", "}", "]", "}">>
\* {"search_queries": []}
TxtPlanQueriesOnly ==
    <<"{", "\"", "s", "e", "a", "r", "c", "h", "_", "q", "u", "e", "r", "i",
      "e", "s", "\"", ":", " ", "[", "]", "}">>
\* {"components": "a", "search_queries": ["q"]}
TxtPlanBadComps ==
    <<"{", "\"", "c", "o", "m", "p", "o", "n", "e", "n", "t", "s", "\"", ":",
      " ", "\"", "a", "\"", ",", " ", "\"", "s", "e", "a", "r", "c", "h",
      "_", "q", "u", "e", "r", "i", "e", "s", "\"", ":", " ", "[", "\"", "q",
      "\"", "]", "}">>
\* {"components": [], "search_queries": {}}
TxtPlanBadQueries ==
    <<"{", "\"", "c", "o", "m", "p", "o", "n", "e", "n", "t", "s", "\"", ":",
      " ", "[", "]", ",", " ", "\"", "s", "e", "a", "r", "c", "h", "_", "q",
      "u", "e", "r", "i", "e", "s", "\"", ":", " ", "{", "}", "}">>
\* {"is_valid": true, "errors": [], "warnings": ["w"], "completeness_score": 0.9, "suggestions": []}
TxtValOk ==
    <<"{", "\"", "i", "s", "_", "v", "a", "l", "i", "d", "\"", ":", " ", "t",
      "r", "u", "e", ",", " ", "\"", "e", "r", "r", "o", "r", "s", "\"", ":",
      " ", "[", "]", ",", " ", "\"", "w", "a", "r", "n", "i", "n", "g", "s",
      "\"", ":", " ", "[", "\"", "w", "\"", "]", ",", " ", "\"", "c", "o",
      "m", "p", "l", "e", "t", "e", "n", "e", "s", "s", "_", "s", "c", "o",
      "r", "e", "\"", ":", " ", "0", ".", "9", ",", " ", "\"", "s", "u", "g",
      "g", "e", "s", "t", "i", "o", "n", "s", "\"", ":", " ", "[", "]", "}">>
\* {"is_valid": false, "errors": ["e"], "warnings": [], "completeness_score": 0.4, "suggestions": ["s"]}
TxtValBad ==
    <<"{", "\"", "i", "s", "_", "v", "a", "l", "i", "d", "\"", ":", " ", "f",
      "a", "l", "s", "e", ",", " ", "\"", "e", "r", "r", "o", "r", "s", "\"",
      ":", " ", "[", "\"", "e", "\"", "]", ",", " ", "\"", "w", "a", "r",
      "n", "i", "n", "g", "s", "\"", ":", " ", "[", "]", ",", " ", "\"", "c",
      "o", "m", "p", "l", "e", "t", "e", "n", "e", "s", "s", "_", "s", "c",
      "o", "r", "e", "\"", ":", " ", "0", ".", "4", ",", " ", "\"", "s", "u",
      "g", "g", "e", "s", "t", "i", "o", "n", "s", "\"", ":", " ", "[", "\"",
      "s", "\"", "]", "}">>
\* {"components": []}
TxtPlanNoComps ==
    <<"{", "\"", "c", "o", "m", "p", "o", "n", "e", "n", "t", "s", "\"", ":",
      " ", "[", "]", "}">>
\* {"is_valid": true}
TxtValTrue ==
    <<"{", "\"", "i", "s", "_", "v", "a", "l", "i", "d", "\"", ":", " ", "t",
      "r", "u", "e", "}">>
\* {"is_valid": false}
TxtValFalse ==
    <<"{", "\"", "i", "s", "_", "v", "a", "l", "i", "d", "\"", ":", " ", "f",
      "a", "l", "s", "e", "}">>
\* {"errors": ["e"]}
TxtValNoVerdict ==
    <<"{", "\"", "e", "r", "r", "o", "r", "s", "\"", ":", " ", "[", "\"",
      "e", "\"", "]", "}">>
\* {"is_valid": "false", "completeness_score": 5}
TxtValStrVerdict ==
    <<"{", "\"", "i", "s", "_", "v", "a", "l", "i", "d", "\"", ":", " ",
      "\"", "f", "a", "l", "s", "e", "\"", ",", " ", "\"", "c", "o", "m",
      "p", "l", "e", "t", "e", "n", "e", "s", "s", "_", "s", "c", "o", "r",
      "e", "\"", ":", " ", "5", "}">>
\* {"is_valid": null, "errors": [], "warnings": [], "completeness_score": -1.0, "suggestions": []}
TxtValNullVerdict ==
    <<"{", "\"", "i", "s", "_", "v", "a", "l", "i", "d", "\"", ":", " ", "n",
      "u", "l", "l", ",", " ", "\"", "e", "r", "r", "o", "r", "s", "\"", ":",
      " ", "[", "]", ",", " ", "\"", "w", "a", "r", "n", "i", "n", "g", "s",
      "\"", ":", " ", "[", "]", ",", " ", "\"", "c", "o", "m", "p", "l", "e",
      "t", "e", "n", "e", "s", "s", "_", "s", "c", "o", "r", "e", "\"", ":",
      " ", "-", "1", ".", "0", ",", " ", "\"", "s", "u", "g", "g", "e", "s",
      "t", "i", "o", "n", "s", "\"", ":", " ", "[", "]", "}">>

\* ------------------------------------------------------------ json.loads
\* The decoder of Python's json module in its default (strict) mode, reading
\* text s from position i; positions count from 1.  A scanner answers
\* [ok, val, end]: ok is FALSE where the decoder raises JSONDecodeError, end
\* is the position after what was read.
JsonWhitespace == {" ", "\t", "\n", "\r"}
ControlChars == {Chr(code) : code \in 0..31}
\* 0-9, then A-F and a-f
Digits == SubSeq(Ascii, 49, 58)
HexDigits == Digits \o SubSeq(Ascii, 66, 71) \o SubSeq(Ascii, 98, 103)

\* s[i:i+1], with "" for the empty slice
At(s, i) == IF 1 <= i /\ i <= Len(s) THEN s[i] ELSE ""

StartsWith(s, i, word) ==
    /\ i + Len(word) - 1 <= Len(s)
    /\ SubSeq(s, i, i + Len(word) - 1) = word

RECURSIVE SkipWhitespace(_, _)
SkipWhitespace(s, i) ==
    IF At(s, i) \in JsonWhitespace THEN SkipWhitespace(s, i + 1) ELSE i

Failed == [ok |-> FALSE, val |-> JNull, end |-> 0]
Scanned(val, end) == [ok |-> TRUE, val |-> val, end |-> end]

IsDigit(c) == \E d \in 1..10 : Digits[d] = c
DigitVal(c) == (CHOOSE d \in 1..10 : Digits[d] = c) - 1
IsHex(c) == \E d \in 1..22 : HexDigits[d] = c
HexVal(c) ==
    LET d == CHOOSE d \in 1..22 : HexDigits[d] = c
    IN IF d <= 16 THEN d - 1 ELSE d - 7

\* the position after the digits that start at i
RECURSIVE DigitsEnd(_, _)
DigitsEnd(s, i) == IF IsDigit(At(s, i)) THEN DigitsEnd(s, i + 1) ELSE i

\* the number written by acc followed by the digits s[i], ..., s[j-1]
RECURSIVE DigitsValue(_, _, _, _)
DigitsValue(acc, s, i, j) ==
    IF i >= j THEN acc ELSE DigitsValue(acc * 10 + DigitVal(s[i]), s, i + 1, j)

RECURSIVE NumDigits(_)
NumDigits(m) == IF m < 10 THEN 1 ELSE 1 + NumDigits(m \div 10)

RECURSIVE Pow10(_)
Pow10(k) == IF k <= 0 THEN 1 ELSE 10 * Pow10(k - 1)

RECURSIVE NormalDecimal(_, _)
NormalDecimal(m, e) ==
    IF m = 0 THEN <<0, 0>>
    ELSE IF m % 10 = 0 THEN NormalDecimal(m \div 10, e + 1)
    ELSE <<m, e>>

\* Numbers too wide for an integer are sequences of base-10000 limbs, the
\* least significant first.

\* x * f + carry
MulAdd(x, f, carry) ==
    LET RECURSIVE Limbs(_)
        Limbs(c) == IF c = 0 THEN <<>> ELSE <<c % 10000>> \o Limbs(c \div 10000)
        RECURSIVE MulLimbs(_, _, _)
        \* the limbs lo..hi of the product and the carry out of them: the lower
        \* half of the limbs, then the upper half (c, never negative, is known
        \* before its limbs are taken up)
        MulLimbs(c, lo, hi) ==
            LET UpperHalf(low, high) == <<low[1] \o high[1], high[2]>>
                LowerHalf(low) == UpperHalf(low, MulLimbs(low[2], (lo + hi) \div 2 + 1, hi))
            IN IF lo > hi \/ c < 0 THEN <<<<>>, c>>
               ELSE IF lo = hi
               THEN <<<<(x[lo] * f + c) % 10000>>, (x[lo] * f + c) \div 10000>>
               ELSE LowerHalf(MulLimbs(c, lo, (lo + hi) \div 2))
        Whole(product) == product[1] \o Limbs(product[2])
    IN Whole(MulLimbs(carry, 1, Len(x)))

\* x \div dv
Quotient(x, dv) ==
    LET RECURSIVE Trim(_)
        Trim(q) == IF q # <<>> /\ q[Len(q)] = 0 THEN Trim(SubSeq(q, 1, Len(q) - 1)) ELSE q
        RECURSIVE DivLimbs(_, _, _)
        \* the limbs lo..hi of the quotient and the remainder: rem is the
        \* remainder of the limbs above hi, never negative and known before
        \* these limbs are taken up; the upper half first
        DivLimbs(rem, lo, hi) ==
            LET LowerHalf(low, high) == <<low[1] \o high[1], low[2]>>
                UpperHalf(high) == LowerHalf(DivLimbs(high[2], lo, (lo + hi) \div 2), high)
            IN IF lo > hi \/ rem < 0 THEN <<<<>>, rem>>
               ELSE IF lo = hi
               THEN <<<<(rem * 10000 + x[lo]) \div dv>>, (rem * 10000 + x[lo]) % dv>>
               ELSE UpperHalf(DivLimbs(rem, (lo + hi) \div 2 + 1, hi))
    IN Trim(DivLimbs(0, 1, Len(x))[1])

\* x * f^t
RECURSIVE Times(_, _, _)
Times(x, f, t) ==
    IF t = 0 \/ x = <<>> THEN x
    ELSE IF t = 1 THEN MulAdd(x, f, 0)
    ELSE Times(Times(x, f, t \div 2), f, t - t \div 2)

\* x \div dv^t
RECURSIVE Over(_, _, _)
Over(x, dv, t) ==
    IF t = 0 \/ x = <<>> THEN x
    ELSE IF t = 1 THEN Quotient(x, dv)
    ELSE Over(Over(x, dv, t \div 2), dv, t - t \div 2)

\* The multiple of 2^-1074 nearest to the decimal x * 10^ex, -333 <= ex < 0:
\* x * 2^(1075 + ex) \div 5^(-ex) is twice the quotient by 2^-1074, rounded
\* down; half of it, rounded up.  No decimal this short is half way between
\* two multiples: 2^-1075 has 752 significant digits.
NearestMultiple(x, ex) ==
    LET RECURSIVE Power(_, _)
        Power(b, r) == IF r = 0 THEN 1 ELSE b * Power(b, r - 1)
    IN Quotient(MulAdd(Quotient(Over(MulAdd(Times(x, 65536, (1075 + ex) \div 16),
                                            Power(2, (1075 + ex) % 16), 0),
                                     15625, (0 - ex) \div 6),
                                Power(5, (0 - ex) % 6)),
                       1, 1),
                2)

\* The decimal of size digits nearest to the double k * 2^-1074, if float()
\* reads it as that double, else the nearest of more digits.  v is
\* k * 5^1074, the digits of the double.
RECURSIVE Shortest(_, _, _)
Shortest(k, v, size) ==
    LET LimbDigits(l) == <<l \div 1000, (l \div 100) % 10, (l \div 10) % 10, l % 10>>
        \* the first 13 to 16 digits of v
        Leading(last) ==
            SubSeq(LimbDigits(v[last]), 5 - NumDigits(v[last]), 4)
            \o LimbDigits(v[last - 1]) \o LimbDigits(v[last - 2])
            \o LimbDigits(v[last - 3])
        RECURSIVE Value(_, _)
        \* the number written by the digits top[1..j]
        Value(top, j) == IF j = 0 THEN 0 ELSE 10 * Value(top, j - 1) + top[j]
        Rounded(top) == IF top[size + 1] >= 5 THEN Value(top, size) + 1 ELSE Value(top, size)
        c == Rounded(Leading(Len(v)))
        ex == 4 * (Len(v) - 1) + NumDigits(v[Len(v)]) - size - 1074
    IN IF NearestMultiple(MulAdd(<<>>, 1, c), ex) = k THEN NormalDecimal(c, ex)
       ELSE Shortest(k, v, size + 1)

\* the decimal repr() prints for the double k * 2^-1074
ShortestRepr(k) == Shortest(k, Times(k, 15625, 179), 1)

\* float(text) for a decimal m * 10^e below the smallest normal double
\* (2^-1022, 2.2250738585072014e-308) and above half the smallest double:
\* the nearest multiple k * 2^-1074, named by the shortest decimal that
\* float() reads as that double, the nearest to it among the shortest.
Subnormal(m, e) == ShortestRepr(NearestMultiple(MulAdd(<<>>, 1, m), e))

\* float(text) for the decimal m * 10^e, m >= 0: beyond the largest double
\* (1.7976931348623157e308) it is infinite, below half the smallest
\* (4.94e-324) it is zero, below the smallest normal double it is the
\* nearest multiple of 2^-1074.  Otherwise the float is named by the decimal
\* as written: decimals of up to 9 digits name different normal doubles.
PyFloat(negative, m, e) ==
    LET n == NormalDecimal(m, e)
        d == NumDigits(n[1])
        exponent == d + n[2] - 1
        lead == IF d <= 9 THEN n[1] * Pow10(9 - d) ELSE n[1]
        overflow == \/ exponent > 308
                    \/ /\ exponent = 308
                       /\ lead >= (IF d <= 9 THEN 179769314 ELSE 1797693135)
        underflow == \/ exponent < -324
                     \/ exponent = -324 /\ (d > 9 \/ lead < 247032823)
        subnormal == \/ exponent < -308
                     \/ exponent = -308 /\ (d > 9 \/ lead <= 222507385)
        Signed(dec) == JFloat(IF negative THEN 0 - dec[1] ELSE dec[1], dec[2])
    IN IF n[1] = 0 \/ underflow THEN JFloat(0, 0)
       ELSE IF overflow THEN JInfinity(negative)
       ELSE IF subnormal THEN Signed(Subnormal(n[1], n[2]))
       ELSE Signed(n)

\* NUMBER_RE at s[i]: -?(0|[1-9][0-9]*)(\.[0-9]+)?([eE][-+]?[0-9]+)?
\* The integer part is s[first..intEnd-1], the fraction ends before fracEnd,
\* the exponent's digits are s[expFirst..expEnd-1]; ok is FALSE when there is
\* no match.
match_number(s, i) ==
    LET Exponent(first, intEnd, fracEnd, expFirst, expEnd) ==
            [ok |-> TRUE, first |-> first, intEnd |-> intEnd, fracEnd |-> fracEnd,
             expFirst |-> expFirst, expEnd |-> expEnd]
        ExponentSign(first, intEnd, fracEnd, expFirst) ==
            Exponent(first, intEnd, fracEnd, expFirst,
                     IF At(s, fracEnd) \in {"e", "E"} /\ IsDigit(At(s, expFirst))
                     THEN DigitsEnd(s, expFirst) ELSE fracEnd)
        Fraction(first, intEnd, fracEnd) ==
            ExponentSign(first, intEnd, fracEnd,
                         IF At(s, fracEnd + 1) \in {"+", "-"}
                         THEN fracEnd + 2 ELSE fracEnd + 1)
        Integer(first, intEnd) ==
            Fraction(first, intEnd,
                     IF At(s, intEnd) = "." /\ IsDigit(At(s, intEnd + 1))
                     THEN DigitsEnd(s, intEnd + 1) ELSE intEnd)
        Sign(first) ==
            IF ~IsDigit(At(s, first))
            THEN [ok |-> FALSE, first |-> 0, intEnd |-> 0, fracEnd |-> 0,
                  expFirst |-> 0, expEnd |-> 0]
            ELSE Integer(first, IF At(s, first) = "0" THEN first + 1
                                ELSE DigitsEnd(s, first))
    IN Sign(IF At(s, i) = "-" THEN i + 1 ELSE i)

\* The number of the match m at s[i]: an int when there is neither fraction
\* nor exponent, else a float.
ParseNumber(s, i, m) ==
    LET negative == At(s, i) = "-"
        integer == DigitsValue(0, s, m.first, m.intEnd)
        fracLen == IF m.fracEnd > m.intEnd THEN m.fracEnd - m.intEnd - 1 ELSE 0
        expAbs == DigitsValue(0, s, m.expFirst, m.expEnd)
        exp == IF m.expEnd = m.fracEnd THEN 0
               ELSE IF At(s, m.fracEnd + 1) = "-" THEN 0 - expAbs ELSE expAbs
    IN IF ~m.ok THEN Failed
       ELSE IF m.expEnd = m.intEnd
       THEN Scanned(JNum(IF negative THEN 0 - integer ELSE integer), m.intEnd)
       ELSE Scanned(PyFloat(negative, DigitsValue(integer, s, m.intEnd + 1, m.fracEnd),
                            exp - fracLen),
                    m.expEnd)

\* the upper-case hexadecimal spelling of n, at least width digits long
RECURSIVE HexStr(_, _)
HexStr(n, width) ==
    IF n = 0 /\ width <= 0 THEN ""
    ELSE HexStr(n \div 16, width - 1)
         \o HexDigits[(n % 16) + 1]

\* chr(code)
CharOf(code) == IF code < 128 THEN Chr(code) ELSE "U+" \o HexStr(code, 4)

\* A str is spelled as a TLA+ string by its characters' spellings, one after
\* the other, each readable back: a backslash is doubled, a character
\* written U+XXXX is \u{XXXX}, any other character is itself.  Different
\* strs have different spellings.
Spell(c) ==
    IF c = "\\" THEN "\\\\"
    ELSE IF Len(c) = 1 THEN c
    ELSE "\\u{" \o SubSeq(c, 3, Len(c)) \o "}"

\* the four hexadecimal digits at s[i..i+3]: -1 when they are not that
HexFour(s, i) ==
    IF i + 3 <= Len(s) /\ \A k \in i..(i + 3) : IsHex(s[k])
    THEN HexVal(s[i]) * 4096 + HexVal(s[i + 1]) * 256 + HexVal(s[i + 2]) * 16
         + HexVal(s[i + 3])
    ELSE -1

\* BACKSLASH: what follows a backslash, and the character it stands for
Backslash ==
    [c \in {"\"", "\\", "/", "b", "f", "n", "r", "t"} |->
        CASE c = "b" -> Chr(8) [] c = "f" -> "\f" [] c = "n" -> "\n"
          [] c = "r" -> "\r" [] c = "t" -> "\t" [] OTHER -> c]

\* scanstring: the string whose opening quote is just before position i,
\* decoded onto acc.  val is the spelling of a str, end the position after
\* the closing quote.
RECURSIVE scanstring(_, _, _)
scanstring(s, i, acc) ==
    LET c == At(s, i)
        esc == At(s, i + 1)
        uni == HexFour(s, i + 2)
        uni2 == HexFour(s, i + 8)
        paired == /\ 55296 <= uni /\ uni <= 56319
                  /\ At(s, i + 6) = "\\" /\ At(s, i + 7) = "u"
                  /\ i + 12 <= Len(s)
    IN IF c = "" \/ c \in ControlChars THEN Failed
       ELSE IF c = "\"" THEN Scanned(acc, i + 1)
       ELSE IF c # "\\" THEN scanstring(s, i + 1, acc \o Spell(c))
       ELSE IF esc = "u"
       THEN IF uni < 0 THEN Failed
            ELSE IF ~paired THEN scanstring(s, i + 6, acc \o Spell(CharOf(uni)))
            ELSE IF uni2 < 0 THEN Failed
            ELSE IF 56320 <= uni2 /\ uni2 <= 57343
            THEN scanstring(s, i + 12,
                            acc \o Spell(CharOf(65536 + (uni - 55296) * 1024 + (uni2 - 56320))))
            ELSE scanstring(s, i + 6, acc \o Spell(CharOf(uni)))
       ELSE IF esc \in DOMAIN Backslash THEN scanstring(s, i + 2, acc \o Spell(Backslash[esc]))
       ELSE Failed

RECURSIVE scan_once(_, _)
RECURSIVE ArrayItems(_, _, _)
RECURSIVE ObjectPairs(_, _, _)

\* JSONArray: the array whose "[" is just before position i
JSONArray(s, i) ==
    LET j == SkipWhitespace(s, i)
    IN IF At(s, j) = "]" THEN Scanned(JList(<<>>), j + 1) ELSE ArrayItems(s, j, <<>>)

\* the loop of JSONArray: a value at i, then "]" or "," and the next value
ArrayItems(s, i, values) ==
    LET Delimiter(value, j) ==
            IF At(s, j) = "]" THEN Scanned(JList(Append(values, value.val)), j + 1)
            ELSE IF At(s, j) = ","
            THEN ArrayItems(s, SkipWhitespace(s, j + 1), Append(values, value.val))
            ELSE Failed
        Value(value) ==
            IF value.ok THEN Delimiter(value, SkipWhitespace(s, value.end)) ELSE Failed
    IN Value(scan_once(s, i))

\* JSONObject: the object whose "{" is just before position i
JSONObject(s, i) ==
    LET j == SkipWhitespace(s, i)
    IN IF At(s, j) = "}" THEN Scanned(JObj(EmptyDict), j + 1)
       ELSE IF At(s, j) = "\"" THEN ObjectPairs(s, j + 1, EmptyDict)
       ELSE Failed

\* the loop of JSONObject: the key whose opening quote is just before i, ":",
\* a value, then "}" or "," and the next key; a repeated key keeps its last
\* value
ObjectPairs(s, i, pairs) ==
    LET Delimiter(dict, j, next) ==
            IF At(s, j) = "}" THEN Scanned(JObj(dict), j + 1)
            ELSE IF At(s, j) = "," /\ At(s, next) = "\""
            THEN ObjectPairs(s, next + 1, dict)
            ELSE Failed
        Pair(dict, j) == Delimiter(dict, j, SkipWhitespace(s, j + 1))
        Value(key, value) ==
            IF value.ok
            THEN Pair((key.val :> value.val) @@ pairs, SkipWhitespace(s, value.end))
            ELSE Failed
        Colon(key, colon) ==
            IF key.ok /\ At(s, colon) = ":"
            THEN Value(key, scan_once(s, SkipWhitespace(s, colon + 1)))
            ELSE Failed
        Key(key) == Colon(key, SkipWhitespace(s, key.end))
    IN Key(scanstring(s, i, ""))

\* scan_once: the JSON value that starts at position i
scan_once(s, i) ==
    LET c == At(s, i)
        String(string) ==
            IF string.ok THEN Scanned(JStr(string.val), string.end) ELSE Failed
        Number(number) ==
            IF number.ok THEN number
            ELSE IF StartsWith(s, i, <<"N", "a", "N">>) THEN Scanned(JNaN, i + 3)
            ELSE IF StartsWith(s, i, <<"I", "n", "f", "i", "n", "i", "t", "y">>)
            THEN Scanned(JInfinity(FALSE), i + 8)
            ELSE IF StartsWith(s, i, <<"-", "I", "n", "f", "i", "n", "i", "t", "y">>)
            THEN Scanned(JInfinity(TRUE), i + 9)
            ELSE Failed
    IN IF c = "\"" THEN String(scanstring(s, i + 1, ""))
       ELSE IF c = "{" THEN JSONObject(s, i + 1)
       ELSE IF c = "[" THEN JSONArray(s, i + 1)
       ELSE IF StartsWith(s, i, <<"n", "u", "l", "l">>) THEN Scanned(JNull, i + 4)
       ELSE IF StartsWith(s, i, <<"t", "r", "u", "e">>) THEN Scanned(JBool(TRUE), i + 4)
       ELSE IF StartsWith(s, i, <<"f", "a", "l", "s", "e">>) THEN Scanned(JBool(FALSE), i + 5)
       ELSE Number(ParseNumber(s, i, match_number(s, i)))

\* JSONDecoder.decode(raw): one value with whitespace around it and nothing
\* else.  ok is FALSE when it raises.
decode(raw) ==
    LET End(value) ==
            IF value.ok /\ SkipWhitespace(raw, value.end) = Len(raw) + 1
            THEN [ok |-> TRUE, val |-> value.val]
            ELSE [ok |-> FALSE, val |-> JNull]
    IN End(scan_once(raw, SkipWhitespace(raw, 1)))

\* The documents above, decoded once.
Decoded ==
    [raw \in
    {TxtEmpty, TxtBlank, TxtProse, TxtArray, TxtNumber, TxtEmptyObj, TxtPlanFull,
     TxtPlanCompsOnly, TxtPlanQueriesOnly, TxtPlanBadComps, TxtPlanBadQueries, TxtValOk,
     TxtValBad, TxtValNoVerdict, TxtValStrVerdict, TxtValNullVerdict, TxtPlanNoComps,
     TxtValTrue, TxtValFalse} |-> decode(raw)]

\* json.loads(raw): decode(raw), looked up when raw is one of the documents.
JsonLoads(raw) == IF raw \in DOMAIN Decoded THEN Decoded[raw] ELSE decode(raw)

\* ------------------------------------------------------------- planner
\* The default plan built at navigator_agent.py:39-48.
DefaultPlan(requirements) ==
    [components |-> JList(<<JObj([name |-> JStr("main_module"),
                                  description |-> JStr(requirements),
                                  priority |-> JNum(1)])>>),
     search_queries |-> JList(<<JStr(requirements)>>)]

\* MergePlan taking the answer only when both of its fields are lists
MergePlanMut(plan, raw) ==
    LET Merge(r) ==
            IF /\ r.ok
               /\ r.val.t = "obj"
               /\ "components" \in DOMAIN r.val.v
               /\ r.val.v["components"].t = "list"
               /\ "search_queries" \in DOMAIN r.val.v
               /\ r.val.v["search_queries"].t = "list"
            THEN [components |-> r.val.v["components"],
                  search_queries |-> r.val.v["search_queries"]]
            ELSE plan
    IN Merge(JsonLoads(raw))

\* The try block at navigator_agent.py:53-62 on a non-empty raw response.
MergePlan(plan, raw) ==
    LET Components(p, parsed) ==
            IF "components" \in DOMAIN parsed.v /\ parsed.v["components"].t = "list"
            THEN [p EXCEPT !.components = parsed.v["components"]]
            ELSE p
        Queries(p, parsed) ==
            IF "search_queries" \in DOMAIN parsed.v
               /\ parsed.v["search_queries"].t = "list"
            THEN [p EXCEPT !.search_queries = parsed.v["search_queries"]]
            ELSE p
        Merge(r) ==
            IF r.ok /\ r.val.t = "obj"
            THEN Queries(Components(plan, r.val), r.val)
            ELSE plan
    IN Merge(JsonLoads(raw))

\* plan_code_generation(requirements, project_type) given the LLM's outcome.
\* Every path returns a plan: the call failure and the parse failure are caught.
plan_code_generation(requirements, llm) ==
    LET raw == IF llm.kind = "raise" THEN <<>> ELSE OrEmpty(llm)
        plan == DefaultPlan(requirements)
    IN IF raw = <<>> THEN plan ELSE MergePlan(plan, raw)

\* ------------------------------------------------------------ validator
EmptyCodeDetails ==
    JObj([is_valid |-> JBool(FALSE),
          errors |-> JList(<<JStr("Code generation returned empty output")>>),
          warnings |-> JList(<<>>),
          completeness_score |-> JFloat(0, 0),
          suggestions |-> JList(<<JStr("Retry generation with simplified requirements")>>)])

CallFailedDetails ==
    JObj([is_valid |-> JBool(TRUE),
          errors |-> JList(<<>>),
          warnings |-> JList(<<JStr("Validation step failed; treat code as unvalidated.")>>),
          completeness_score |-> JFloat(7, -1),
          suggestions |-> JList(<<>>)])

\* UnparsableDetails with the pessimistic verdict
UnparsableDetailsMut ==
    JObj([is_valid |-> JBool(FALSE),
          errors |-> JList(<<JStr("Validation response was not parseable")>>),
          warnings |-> JList(<<>>),
          completeness_score |-> JFloat(0, 0),
          suggestions |-> JList(<<>>)])

UnparsableDetails ==
    JObj([is_valid |-> JBool(TRUE),
          errors |-> JList(<<>>),
          warnings |-> JList(<<JStr("Validation response was not parseable; treat as best-effort.")>>),
          completeness_score |-> JFloat(7, -1),
          suggestions |-> JList(<<>>)])

\* validate_generated_code(code, project_type, requirements) given the
\* outcome the LLM call would have.  called is TRUE when call_llm was invoked.
validate_generated_code(code, llm) ==
    LET Result(details) ==
            [is_valid |-> PyBool(DictGet(details, "is_valid", JBool(TRUE))),
             details |-> details,
             called |-> TRUE]
        Loaded(r) == Result(IF r.ok /\ r.val.t = "obj" THEN r.val ELSE UnparsableDetails)
    IN IF Strip(code) = <<>>
       THEN [is_valid |-> FALSE, details |-> EmptyCodeDetails, called |-> FALSE]
       ELSE IF llm.kind = "raise"
       THEN [is_valid |-> TRUE, details |-> CallFailedDetails, called |-> TRUE]
       ELSE Loaded(JsonLoads(OrEmpty(llm)))

\* ---------------------------------------------------------- case mapping
\* str.lower(), str.upper() and str.capitalize() of Python 3.11 (Unicode
\* 14.0).  A character maps to a text: some map to two or three characters.

\* ord(c)
Ord(c) ==
    LET RECURSIVE Hex(_, _)
        Hex(i, code) ==
            IF i > Len(c) THEN code ELSE Hex(i + 1, code * 16 + HexVal(SubSeq(c, i, i)))
    IN IF Len(c) = 1 THEN (CHOOSE i \in 1..128 : Ascii[i] = c) - 1 ELSE Hex(3, 0)

\* the text of the characters of the code points codes
Text(codes) == [i \in 1..Len(codes) |-> CharOf(codes[i])]

\* the row of a table that holds a code point, 0 when none does.  A row is
\* <<first, last, step, delta>>: first, first + step, ..., last map to
\* themselves plus delta; or <<code, codes>>: code maps to codes.
Row(table, code) ==
    LET rows == {r \in 1..Len(table) :
                    /\ table[r][1] <= code
                    /\ IF Len(table[r]) = 2 THEN table[r][1] = code
                       ELSE /\ code <= table[r][2]
                            /\ (code - table[r][1]) % table[r][3] = 0}
    IN IF rows = {} THEN 0 ELSE CHOOSE r \in rows : TRUE

\* whether a code point is in one of the ranges <<first, last>>
InRanges(ranges, code) ==
    \E r \in 1..Len(ranges) : ranges[r][1] <= code /\ code <= ranges[r][2]

\* the characters whose small letter is another single character
LowerTable ==
    <<<<65, 90, 1, 32>>, <<192, 214, 1, 32>>, <<216, 222, 1, 32>>,
      <<256, 302, 2, 1>>, <<306, 310, 2, 1>>, <<313, 327, 2, 1>>,
      <<330, 374, 2, 1>>, <<376, 376, 1, -121>>, <<377, 381, 2, 1>>,
      <<385, 385, 1, 210>>, <<386, 388, 2, 1>>, <<390, 390, 1, 206>>,
      <<391, 391, 1, 1>>, <<393, 394, 1, 205>>, <<395, 395, 1, 1>>,
      <<398, 398, 1, 79>>, <<399, 399, 1, 202>>, <<400, 400, 1, 203>>,
      <<401, 401, 1, 1>>, <<403, 403, 1, 205>>, <<404, 404, 1, 207>>,
      <<406, 406, 1, 211>>, <<407, 407, 1, 209>>, <<408, 408, 1, 1>>,
      <<412, 412, 1, 211>>, <<413, 413, 1, 213>>, <<415, 415, 1, 214>>,
      <<416, 420, 2, 1>>, <<422, 422, 1, 218>>, <<423, 423, 1, 1>>,
      <<425, 425, 1, 218>>, <<428, 428, 1, 1>>, <<430, 430, 1, 218>>,
      <<431, 431, 1, 1>>, <<433, 434, 1, 217>>, <<435, 437, 2, 1>>,
      <<439, 439, 1, 219>>, <<440, 440, 1, 1>>, <<444, 444, 1, 1>>,
      <<452, 452, 1, 2>>, <<453, 453, 1, 1>>, <<455, 455, 1, 2>>,
      <<456, 456, 1, 1>>, <<458, 458, 1, 2>>, <<459, 475, 2, 1>>,
      <<478, 494, 2, 1>>, <<497, 497, 1, 2>>, <<498, 500, 2, 1>>,
      <<502, 502, 1, -97>>, <<503, 503, 1, -56>>, <<504, 542, 2, 1>>,
      <<544, 544, 1, -130>>, <<546, 562, 2, 1>>, <<570, 570, 1, 10795>>,
      <<571, 571, 1, 1>>, <<573, 573, 1, -163>>, <<574, 574, 1, 10792>>,
      <<577, 577, 1, 1>>, <<579, 579, 1, -195>>, <<580, 580, 1, 69>>,
      <<581, 581, 1, 71>>, <<582, 590, 2, 1>>, <<880, 882, 2, 1>>,
      <<886, 886, 1, 1>>, <<895, 895, 1, 116>>, <<902, 902, 1, 38>>,
      <<904, 906, 1, 37>>, <<908, 908, 1, 64>>, <<910, 911, 1, 63>>,
      <<913, 929, 1, 32>>, <<931, 939, 1, 32>>, <<975, 975, 1, 8>>,
      <<984, 1006, 2, 1>>, <<1012, 1012, 1, -60>>, <<1015, 1015, 1, 1>>,
      <<1017, 1017, 1, -7>>, <<1018, 1018, 1, 1>>, <<1021, 1023, 1, -130>>,
      <<1024, 1039, 1, 80>>, <<1040, 1071, 1, 32>>, <<1120, 1152, 2, 1>>,
      <<1162, 1214, 2, 1>>, <<1216, 1216, 1, 15>>, <<1217, 1229, 2, 1>>,
      <<1232, 1326, 2, 1>>, <<1329, 1366, 1, 48>>, <<4256, 4293, 1, 7264>>,
      <<4295, 4295, 1, 7264>>, <<4301, 4301, 1, 7264>>,
      <<5024, 5103, 1, 38864>>, <<5104, 5109, 1, 8>>,
      <<7312, 7354, 1, -3008>>, <<7357, 7359, 1, -3008>>,
      <<7680, 7828, 2, 1>>, <<7838, 7838, 1, -7615>>, <<7840, 7934, 2, 1>>,
      <<7944, 7951, 1, -8>>, <<7960, 7965, 1, -8>>, <<7976, 7983, 1, -8>>,
      <<7992, 7999, 1, -8>>, <<8008, 8013, 1, -8>>, <<8025, 8031, 2, -8>>,
      <<8040, 8047, 1, -8>>, <<8072, 8079, 1, -8>>, <<8088, 8095, 1, -8>>,
      <<8104, 8111, 1, -8>>, <<8120, 8121, 1, -8>>, <<8122, 8123, 1, -74>>,
      <<8124, 8124, 1, -9>>, <<8136, 8139, 1, -86>>, <<8140, 8140, 1, -9>>,
      <<8152, 8153, 1, -8>>, <<8154, 8155, 1, -100>>, <<8168, 8169, 1, -8>>,
      <<8170, 8171, 1, -112>>, <<8172, 8172, 1, -7>>,
      <<8184, 8185, 1, -128>>, <<8186, 8187, 1, -126>>,
      <<8188, 8188, 1, -9>>, <<8486, 8486, 1, -7517>>,
      <<8490, 8490, 1, -8383>>, <<8491, 8491, 1, -8262>>,
      <<8498, 8498, 1, 28>>, <<8544, 8559, 1, 16>>, <<8579, 8579, 1, 1>>,
      <<9398, 9423, 1, 26>>, <<11264, 11311, 1, 48>>, <<11360, 11360, 1, 1>>,
      <<11362, 11362, 1, -10743>>, <<11363, 11363, 1, -3814>>,
      <<11364, 11364, 1, -10727>>, <<11367, 11371, 2, 1>>,
      <<11373, 11373, 1, -10780>>, <<11374, 11374, 1, -10749>>,
      <<11375, 11375, 1, -10783>>, <<11376, 11376, 1, -10782>>,
      <<11378, 11378, 1, 1>>, <<11381, 11381, 1, 1>>,
      <<11390, 11391, 1, -10815>>, <<11392, 11490, 2, 1>>,
      <<11499, 11501, 2, 1>>, <<11506, 11506, 1, 1>>, <<42560, 42604, 2, 1>>,
      <<42624, 42650, 2, 1>>, <<42786, 42798, 2, 1>>, <<42802, 42862, 2, 1>>,
      <<42873, 42875, 2, 1>>, <<42877, 42877, 1, -35332>>,
      <<42878, 42886, 2, 1>>, <<42891, 42891, 1, 1>>,
      <<42893, 42893, 1, -42280>>, <<42896, 42898, 2, 1>>,
      <<42902, 42920, 2, 1>>, <<42922, 42922, 1, -42308>>,
      <<42923, 42923, 1, -42319>>, <<42924, 42924, 1, -42315>>,
      <<42925, 42925, 1, -42305>>, <<42926, 42926, 1, -42308>>,
      <<42928, 42928, 1, -42258>>, <<42929, 42929, 1, -42282>>,
      <<42930, 42930, 1, -42261>>, <<42931, 42931, 1, 928>>,
      <<42932, 42946, 2, 1>>, <<42948, 42948, 1, -48>>,
      <<42949, 42949, 1, -42307>>, <<42950, 42950, 1, -35384>>,
      <<42951, 42953, 2, 1>>, <<42960, 42960, 1, 1>>, <<42966, 42968, 2, 1>>,
      <<42997, 42997, 1, 1>>, <<65313, 65338, 1, 32>>,
      <<66560, 66599, 1, 40>>, <<66736, 66771, 1, 40>>,
      <<66928, 66964, 2, 39>>, <<66929, 66937, 2, 39>>,
      <<66941, 66953, 2, 39>>, <<66957, 66961, 2, 39>>,
      <<66965, 66965, 1, 39>>, <<68736, 68786, 1, 64>>,
      <<71840, 71871, 1, 32>>, <<93760, 93791, 1, 32>>,
      <<125184, 125217, 1, 34>>>>

\* the characters whose capital is another single character
UpperTable ==
    <<<<97, 122, 1, -32>>, <<181, 181, 1, 743>>, <<224, 246, 1, -32>>,
      <<248, 254, 1, -32>>, <<255, 255, 1, 121>>, <<257, 303, 2, -1>>,
      <<305, 305, 1, -232>>, <<307, 311, 2, -1>>, <<314, 328, 2, -1>>,
      <<331, 375, 2, -1>>, <<378, 382, 2, -1>>, <<383, 383, 1, -300>>,
      <<384, 384, 1, 195>>, <<387, 389, 2, -1>>, <<392, 392, 1, -1>>,
      <<396, 396, 1, -1>>, <<402, 402, 1, -1>>, <<405, 405, 1, 97>>,
      <<409, 409, 1, -1>>, <<410, 410, 1, 163>>, <<414, 414, 1, 130>>,
      <<417, 421, 2, -1>>, <<424, 424, 1, -1>>, <<429, 429, 1, -1>>,
      <<432, 432, 1, -1>>, <<436, 438, 2, -1>>, <<441, 441, 1, -1>>,
      <<445, 445, 1, -1>>, <<447, 447, 1, 56>>, <<453, 453, 1, -1>>,
      <<454, 454, 1, -2>>, <<456, 456, 1, -1>>, <<457, 457, 1, -2>>,
      <<459, 459, 1, -1>>, <<460, 460, 1, -2>>, <<462, 476, 2, -1>>,
      <<477, 477, 1, -79>>, <<479, 495, 2, -1>>, <<498, 498, 1, -1>>,
      <<499, 499, 1, -2>>, <<501, 501, 1, -1>>, <<505, 543, 2, -1>>,
      <<547, 563, 2, -1>>, <<572, 572, 1, -1>>, <<575, 576, 1, 10815>>,
      <<578, 578, 1, -1>>, <<583, 591, 2, -1>>, <<592, 592, 1, 10783>>,
      <<593, 593, 1, 10780>>, <<594, 594, 1, 10782>>, <<595, 595, 1, -210>>,
      <<596, 596, 1, -206>>, <<598, 599, 1, -205>>, <<601, 601, 1, -202>>,
      <<603, 603, 1, -203>>, <<604, 604, 1, 42319>>, <<608, 608, 1, -205>>,
      <<609, 609, 1, 42315>>, <<611, 611, 1, -207>>, <<613, 613, 1, 42280>>,
      <<614, 614, 1, 42308>>, <<616, 616, 1, -209>>, <<617, 617, 1, -211>>,
      <<618, 618, 1, 42308>>, <<619, 619, 1, 10743>>, <<620, 620, 1, 42305>>,
      <<623, 623, 1, -211>>, <<625, 625, 1, 10749>>, <<626, 626, 1, -213>>,
      <<629, 629, 1, -214>>, <<637, 637, 1, 10727>>, <<640, 640, 1, -218>>,
      <<642, 642, 1, 42307>>, <<643, 643, 1, -218>>, <<647, 647, 1, 42282>>,
      <<648, 648, 1, -218>>, <<649, 649, 1, -69>>, <<650, 651, 1, -217>>,
      <<652, 652, 1, -71>>, <<658, 658, 1, -219>>, <<669, 669, 1, 42261>>,
      <<670, 670, 1, 42258>>, <<837, 837, 1, 84>>, <<881, 883, 2, -1>>,
      <<887, 887, 1, -1>>, <<891, 893, 1, 130>>, <<940, 940, 1, -38>>,
      <<941, 943, 1, -37>>, <<945, 961, 1, -32>>, <<962, 962, 1, -31>>,
      <<963, 971, 1, -32>>, <<972, 972, 1, -64>>, <<973, 974, 1, -63>>,
      <<976, 976, 1, -62>>, <<977, 977, 1, -57>>, <<981, 981, 1, -47>>,
      <<982, 982, 1, -54>>, <<983, 983, 1, -8>>, <<985, 1007, 2, -1>>,
      <<1008, 1008, 1, -86>>, <<1009, 1009, 1, -80>>, <<1010, 1010, 1, 7>>,
      <<1011, 1011, 1, -116>>, <<1013, 1013, 1, -96>>, <<1016, 1016, 1, -1>>,
      <<1019, 1019, 1, -1>>, <<1072, 1103, 1, -32>>, <<1104, 1119, 1, -80>>,
      <<1121, 1153, 2, -1>>, <<1163, 1215, 2, -1>>, <<1218, 1230, 2, -1>>,
      <<1231, 1231, 1, -15>>, <<1233, 1327, 2, -1>>, <<1377, 1414, 1, -48>>,
      <<4304, 4346, 1, 3008>>, <<4349, 4351, 1, 3008>>,
      <<5112, 5117, 1, -8>>, <<7296, 7296, 1, -6254>>,
      <<7297, 7297, 1, -6253>>, <<7298, 7298, 1, -6244>>,
      <<7299, 7300, 1, -6242>>, <<7301, 7301, 1, -6243>>,
      <<7302, 7302, 1, -6236>>, <<7303, 7303, 1, -6181>>,
      <<7304, 7304, 1, 35266>>, <<7545, 7545, 1, 35332>>,
      <<7549, 7549, 1, 3814>>, <<7566, 7566, 1, 35384>>,
      <<7681, 7829, 2, -1>>, <<7835, 7835, 1, -59>>, <<7841, 7935, 2, -1>>,
      <<7936, 7943, 1, 8>>, <<7952, 7957, 1, 8>>, <<7968, 7975, 1, 8>>,
      <<7984, 7991, 1, 8>>, <<8000, 8005, 1, 8>>, <<8017, 8023, 2, 8>>,
      <<8032, 8039, 1, 8>>, <<8048, 8049, 1, 74>>, <<8050, 8053, 1, 86>>,
      <<8054, 8055, 1, 100>>, <<8056, 8057, 1, 128>>, <<8058, 8059, 1, 112>>,
      <<8060, 8061, 1, 126>>, <<8112, 8113, 1, 8>>, <<8126, 8126, 1, -7205>>,
      <<8144, 8145, 1, 8>>, <<8160, 8161, 1, 8>>, <<8165, 8165, 1, 7>>,
      <<8526, 8526, 1, -28>>, <<8560, 8575, 1, -16>>, <<8580, 8580, 1, -1>>,
      <<9424, 9449, 1, -26>>, <<11312, 11359, 1, -48>>,
      <<11361, 11361, 1, -1>>, <<11365, 11365, 1, -10795>>,
      <<11366, 11366, 1, -10792>>, <<11368, 11372, 2, -1>>,
      <<11379, 11379, 1, -1>>, <<11382, 11382, 1, -1>>,
      <<11393, 11491, 2, -1>>, <<11500, 11502, 2, -1>>,
      <<11507, 11507, 1, -1>>, <<11520, 11557, 1, -7264>>,
      <<11559, 11559, 1, -7264>>, <<11565, 11565, 1, -7264>>,
      <<42561, 42605, 2, -1>>, <<42625, 42651, 2, -1>>,
      <<42787, 42799, 2, -1>>, <<42803, 42863, 2, -1>>,
      <<42874, 42876, 2, -1>>, <<42879, 42887, 2, -1>>,
      <<42892, 42892, 1, -1>>, <<42897, 42899, 2, -1>>,
      <<42900, 42900, 1, 48>>, <<42903, 42921, 2, -1>>,
      <<42933, 42947, 2, -1>>, <<42952, 42954, 2, -1>>,
      <<42961, 42961, 1, -1>>, <<42967, 42969, 2, -1>>,
      <<42998, 42998, 1, -1>>, <<43859, 43859, 1, -928>>,
      <<43888, 43967, 1, -38864>>, <<65345, 65370, 1, -32>>,
      <<66600, 66639, 1, -40>>, <<66776, 66811, 1, -40>>,
      <<66967, 67003, 2, -39>>, <<66968, 66976, 2, -39>>,
      <<66980, 66992, 2, -39>>, <<66996, 67000, 2, -39>>,
      <<67004, 67004, 1, -39>>, <<68800, 68850, 1, -64>>,
      <<71872, 71903, 1, -32>>, <<93792, 93823, 1, -32>>,
      <<125218, 125251, 1, -34>>>>

\* the characters whose capital is several characters
UpperSpecial ==
    <<<<223, <<83, 83>>>>, <<329, <<700, 78>>>>, <<496, <<74, 780>>>>,
      <<912, <<921, 776, 769>>>>, <<944, <<933, 776, 769>>>>,
      <<1415, <<1333, 1362>>>>, <<7830, <<72, 817>>>>, <<7831, <<84, 776>>>>,
      <<7832, <<87, 778>>>>, <<7833, <<89, 778>>>>, <<7834, <<65, 702>>>>,
      <<8016, <<933, 787>>>>, <<8018, <<933, 787, 768>>>>,
      <<8020, <<933, 787, 769>>>>, <<8022, <<933, 787, 834>>>>,
      <<8064, <<7944, 921>>>>, <<8065, <<7945, 921>>>>,
      <<8066, <<7946, 921>>>>, <<8067, <<7947, 921>>>>,
      <<8068, <<7948, 921>>>>, <<8069, <<7949, 921>>>>,
      <<8070, <<7950, 921>>>>, <<8071, <<7951, 921>>>>,
      <<8072, <<7944, 921>>>>, <<8073, <<7945, 921>>>>,
      <<8074, <<7946, 921>>>>, <<8075, <<7947, 921>>>>,
      <<8076, <<7948, 921>>>>, <<8077, <<7949, 921>>>>,
      <<8078, <<7950, 921>>>>, <<8079, <<7951, 921>>>>,
      <<8080, <<7976, 921>>>>, <<8081, <<7977, 921>>>>,
      <<8082, <<7978, 921>>>>, <<8083, <<7979, 921>>>>,
      <<8084, <<7980, 921>>>>, <<8085, <<7981, 921>>>>,
      <<8086, <<7982, 921>>>>, <<8087, <<7983, 921>>>>,
      <<8088, <<7976, 921>>>>, <<8089, <<7977, 921>>>>,
      <<8090, <<7978, 921>>>>, <<8091, <<7979, 921>>>>,
      <<8092, <<7980, 921>>>>, <<8093, <<7981, 921>>>>,
      <<8094, <<7982, 921>>>>, <<8095, <<7983, 921>>>>,
      <<8096, <<8040, 921>>>>, <<8097, <<8041, 921>>>>,
      <<8098, <<8042, 921>>>>, <<8099, <<8043, 921>>>>,
      <<8100, <<8044, 921>>>>, <<8101, <<8045, 921>>>>,
      <<8102, <<8046, 921>>>>, <<8103, <<8047, 921>>>>,
      <<8104, <<8040, 921>>>>, <<8105, <<8041, 921>>>>,
      <<8106, <<8042, 921>>>>, <<8107, <<8043, 921>>>>,
      <<8108, <<8044, 921>>>>, <<8109, <<8045, 921>>>>,
      <<8110, <<8046, 921>>>>, <<8111, <<8047, 921>>>>,
      <<8114, <<8122, 921>>>>, <<8115, <<913, 921>>>>,
      <<8116, <<902, 921>>>>, <<8118, <<913, 834>>>>,
      <<8119, <<913, 834, 921>>>>, <<8124, <<913, 921>>>>,
      <<8130, <<8138, 921>>>>, <<8131, <<919, 921>>>>,
      <<8132, <<905, 921>>>>, <<8134, <<919, 834>>>>,
      <<8135, <<919, 834, 921>>>>, <<8140, <<919, 921>>>>,
      <<8146, <<921, 776, 768>>>>, <<8147, <<921, 776, 769>>>>,
      <<8150, <<921, 834>>>>, <<8151, <<921, 776, 834>>>>,
      <<8162, <<933, 776, 768>>>>, <<8163, <<933, 776, 769>>>>,
      <<8164, <<929, 787>>>>, <<8166, <<933, 834>>>>,
      <<8167, <<933, 776, 834>>>>, <<8178, <<8186, 921>>>>,
      <<8179, <<937, 921>>>>, <<8180, <<911, 921>>>>, <<8182, <<937, 834>>>>,
      <<8183, <<937, 834, 921>>>>, <<8188, <<937, 921>>>>,
      <<64256, <<70, 70>>>>, <<64257, <<70, 73>>>>, <<64258, <<70, 76>>>>,
      <<64259, <<70, 70, 73>>>>, <<64260, <<70, 70, 76>>>>,
      <<64261, <<83, 84>>>>, <<64262, <<83, 84>>>>,
      <<64275, <<1348, 1350>>>>, <<64276, <<1348, 1333>>>>,
      <<64277, <<1348, 1339>>>>, <<64278, <<1358, 1350>>>>,
      <<64279, <<1348, 1341>>>>>>

\* the characters whose title case is a single character and not their
\* capital
TitleTable ==
    <<<<452, 452, 1, 1>>, <<453, 453, 1, 0>>, <<454, 454, 1, -1>>,
      <<455, 455, 1, 1>>, <<456, 456, 1, 0>>, <<457, 457, 1, -1>>,
      <<458, 458, 1, 1>>, <<459, 459, 1, 0>>, <<460, 460, 1, -1>>,
      <<497, 497, 1, 1>>, <<498, 498, 1, 0>>, <<499, 499, 1, -1>>,
      <<4304, 4346, 1, 0>>, <<4349, 4351, 1, 0>>, <<8064, 8071, 1, 8>>,
      <<8072, 8079, 1, 0>>, <<8080, 8087, 1, 8>>, <<8088, 8095, 1, 0>>,
      <<8096, 8103, 1, 8>>, <<8104, 8111, 1, 0>>, <<8115, 8115, 1, 9>>,
      <<8124, 8124, 1, 0>>, <<8131, 8131, 1, 9>>, <<8140, 8140, 1, 0>>,
      <<8179, 8179, 1, 9>>, <<8188, 8188, 1, 0>>>>

\* the characters whose title case is several characters and not their
\* capital
TitleSpecial ==
    <<<<223, <<83, 115>>>>, <<1415, <<1333, 1410>>>>,
      <<8114, <<8122, 837>>>>, <<8116, <<902, 837>>>>,
      <<8119, <<913, 834, 837>>>>, <<8130, <<8138, 837>>>>,
      <<8132, <<905, 837>>>>, <<8135, <<919, 834, 837>>>>,
      <<8178, <<8186, 837>>>>, <<8180, <<911, 837>>>>,
      <<8183, <<937, 834, 837>>>>, <<64256, <<70, 102>>>>,
      <<64257, <<70, 105>>>>, <<64258, <<70, 108>>>>,
      <<64259, <<70, 102, 105>>>>, <<64260, <<70, 102, 108>>>>,
      <<64261, <<83, 116>>>>, <<64262, <<83, 116>>>>,
      <<64275, <<1348, 1398>>>>, <<64276, <<1348, 1381>>>>,
      <<64277, <<1348, 1387>>>>, <<64278, <<1358, 1398>>>>,
      <<64279, <<1348, 1389>>>>>>

\* the cased characters: lower case, upper case or title case
CasedRanges ==
    <<<<65, 90>>, <<97, 122>>, <<170, 170>>, <<181, 181>>, <<186, 186>>,
      <<192, 214>>, <<216, 246>>, <<248, 442>>, <<444, 447>>, <<452, 659>>,
      <<661, 696>>, <<704, 705>>, <<736, 740>>, <<837, 837>>, <<880, 883>>,
      <<886, 887>>, <<890, 893>>, <<895, 895>>, <<902, 902>>, <<904, 906>>,
      <<908, 908>>, <<910, 929>>, <<931, 1013>>, <<1015, 1153>>,
      <<1162, 1327>>, <<1329, 1366>>, <<1376, 1416>>, <<4256, 4293>>,
      <<4295, 4295>>, <<4301, 4301>>, <<4304, 4346>>, <<4349, 4351>>,
      <<5024, 5109>>, <<5112, 5117>>, <<7296, 7304>>, <<7312, 7354>>,
      <<7357, 7359>>, <<7424, 7615>>, <<7680, 7957>>, <<7960, 7965>>,
      <<7968, 8005>>, <<8008, 8013>>, <<8016, 8023>>, <<8025, 8025>>,
      <<8027, 8027>>, <<8029, 8029>>, <<8031, 8061>>, <<8064, 8116>>,
      <<8118, 8124>>, <<8126, 8126>>, <<8130, 8132>>, <<8134, 8140>>,
      <<8144, 8147>>, <<8150, 8155>>, <<8160, 8172>>, <<8178, 8180>>,
      <<8182, 8188>>, <<8305, 8305>>, <<8319, 8319>>, <<8336, 8348>>,
      <<8450, 8450>>, <<8455, 8455>>, <<8458, 8467>>, <<8469, 8469>>,
      <<8473, 8477>>, <<8484, 8484>>, <<8486, 8486>>, <<8488, 8488>>,
      <<8490, 8493>>, <<8495, 8500>>, <<8505, 8505>>, <<8508, 8511>>,
      <<8517, 8521>>, <<8526, 8526>>, <<8544, 8575>>, <<8579, 8580>>,
      <<9398, 9449>>, <<11264, 11492>>, <<11499, 11502>>, <<11506, 11507>>,
      <<11520, 11557>>, <<11559, 11559>>, <<11565, 11565>>, <<42560, 42605>>,
      <<42624, 42653>>, <<42786, 42887>>, <<42891, 42894>>, <<42896, 42954>>,
      <<42960, 42961>>, <<42963, 42963>>, <<42965, 42969>>, <<42997, 42998>>,
      <<43000, 43002>>, <<43824, 43866>>, <<43868, 43880>>, <<43888, 43967>>,
      <<64256, 64262>>, <<64275, 64279>>, <<65313, 65338>>, <<65345, 65370>>,
      <<66560, 66639>>, <<66736, 66771>>, <<66776, 66811>>, <<66928, 66938>>,
      <<66940, 66954>>, <<66956, 66962>>, <<66964, 66965>>, <<66967, 66977>>,
      <<66979, 66993>>, <<66995, 67001>>, <<67003, 67004>>, <<67456, 67456>>,
      <<67459, 67461>>, <<67463, 67504>>, <<67506, 67514>>, <<68736, 68786>>,
      <<68800, 68850>>, <<71840, 71903>>, <<93760, 93823>>,
      <<119808, 119892>>, <<119894, 119964>>, <<119966, 119967>>,
      <<119970, 119970>>, <<119973, 119974>>, <<119977, 119980>>,
      <<119982, 119993>>, <<119995, 119995>>, <<119997, 120003>>,
      <<120005, 120069>>, <<120071, 120074>>, <<120077, 120084>>,
      <<120086, 120092>>, <<120094, 120121>>, <<120123, 120126>>,
      <<120128, 120132>>, <<120134, 120134>>, <<120138, 120144>>,
      <<120146, 120485>>, <<120488, 120512>>, <<120514, 120538>>,
      <<120540, 120570>>, <<120572, 120596>>, <<120598, 120628>>,
      <<120630, 120654>>, <<120656, 120686>>, <<120688, 120712>>,
      <<120714, 120744>>, <<120746, 120770>>, <<120772, 120779>>,
      <<122624, 122633>>, <<122635, 122654>>, <<125184, 125251>>,
      <<127280, 127305>>, <<127312, 127337>>, <<127344, 127369>>>>

\* the case-ignorable characters
CaseIgnorableRanges ==
    <<<<39, 39>>, <<46, 46>>, <<58, 58>>, <<94, 94>>, <<96, 96>>,
      <<168, 168>>, <<173, 173>>, <<175, 175>>, <<180, 180>>, <<183, 184>>,
      <<688, 879>>, <<884, 885>>, <<890, 890>>, <<900, 901>>, <<903, 903>>,
      <<1155, 1161>>, <<1369, 1369>>, <<1375, 1375>>, <<1425, 1469>>,
      <<1471, 1471>>, <<1473, 1474>>, <<1476, 1477>>, <<1479, 1479>>,
      <<1524, 1524>>, <<1536, 1541>>, <<1552, 1562>>, <<1564, 1564>>,
      <<1600, 1600>>, <<1611, 1631>>, <<1648, 1648>>, <<1750, 1757>>,
      <<1759, 1768>>, <<1770, 1773>>, <<1807, 1807>>, <<1809, 1809>>,
      <<1840, 1866>>, <<1958, 1968>>, <<2027, 2037>>, <<2042, 2042>>,
      <<2045, 2045>>, <<2070, 2093>>, <<2137, 2139>>, <<2184, 2184>>,
      <<2192, 2193>>, <<2200, 2207>>, <<2249, 2306>>, <<2362, 2362>>,
      <<2364, 2364>>, <<2369, 2376>>, <<2381, 2381>>, <<2385, 2391>>,
      <<2402, 2403>>, <<2417, 2417>>, <<2433, 2433>>, <<2492, 2492>>,
      <<2497, 2500>>, <<2509, 2509>>, <<2530, 2531>>, <<2558, 2558>>,
      <<2561, 2562>>, <<2620, 2620>>, <<2625, 2626>>, <<2631, 2632>>,
      <<2635, 2637>>, <<2641, 2641>>, <<2672, 2673>>, <<2677, 2677>>,
      <<2689, 2690>>, <<2748, 2748>>, <<2753, 2757>>, <<2759, 2760>>,
      <<2765, 2765>>, <<2786, 2787>>, <<2810, 2815>>, <<2817, 2817>>,
      <<2876, 2876>>, <<2879, 2879>>, <<2881, 2884>>, <<2893, 2893>>,
      <<2901, 2902>>, <<2914, 2915>>, <<2946, 2946>>, <<3008, 3008>>,
      <<3021, 3021>>, <<3072, 3072>>, <<3076, 3076>>, <<3132, 3132>>,
      <<3134, 3136>>, <<3142, 3144>>, <<3146, 3149>>, <<3157, 3158>>,
      <<3170, 3171>>, <<3201, 3201>>, <<3260, 3260>>, <<3263, 3263>>,
      <<3270, 3270>>, <<3276, 3277>>, <<3298, 3299>>, <<3328, 3329>>,
      <<3387, 3388>>, <<3393, 3396>>, <<3405, 3405>>, <<3426, 3427>>,
      <<3457, 3457>>, <<3530, 3530>>, <<3538, 3540>>, <<3542, 3542>>,
      <<3633, 3633>>, <<3636, 3642>>, <<3654, 3662>>, <<3761, 3761>>,
      <<3764, 3772>>, <<3782, 3782>>, <<3784, 3789>>, <<3864, 3865>>,
      <<3893, 3893>>, <<3895, 3895>>, <<3897, 3897>>, <<3953, 3966>>,
      <<3968, 3972>>, <<3974, 3975>>, <<3981, 3991>>, <<3993, 4028>>,
      <<4038, 4038>>, <<4141, 4144>>, <<4146, 4151>>, <<4153, 4154>>,
      <<4157, 4158>>, <<4184, 4185>>, <<4190, 4192>>, <<4209, 4212>>,
      <<4226, 4226>>, <<4229, 4230>>, <<4237, 4237>>, <<4253, 4253>>,
      <<4348, 4348>>, <<4957, 4959>>, <<5906, 5908>>, <<5938, 5939>>,
      <<5970, 5971>>, <<6002, 6003>>, <<6068, 6069>>, <<6071, 6077>>,
      <<6086, 6086>>, <<6089, 6099>>, <<6103, 6103>>, <<6109, 6109>>,
      <<6155, 6159>>, <<6211, 6211>>, <<6277, 6278>>, <<6313, 6313>>,
      <<6432, 6434>>, <<6439, 6440>>, <<6450, 6450>>, <<6457, 6459>>,
      <<6679, 6680>>, <<6683, 6683>>, <<6742, 6742>>, <<6744, 6750>>,
      <<6752, 6752>>, <<6754, 6754>>, <<6757, 6764>>, <<6771, 6780>>,
      <<6783, 6783>>, <<6823, 6823>>, <<6832, 6862>>, <<6912, 6915>>,
      <<6964, 6964>>, <<6966, 6970>>, <<6972, 6972>>, <<6978, 6978>>,
      <<7019, 7027>>, <<7040, 7041>>, <<7074, 7077>>, <<7080, 7081>>,
      <<7083, 7085>>, <<7142, 7142>>, <<7144, 7145>>, <<7149, 7149>>,
      <<7151, 7153>>, <<7212, 7219>>, <<7222, 7223>>, <<7288, 7293>>,
      <<7376, 7378>>, <<7380, 7392>>, <<7394, 7400>>, <<7405, 7405>>,
      <<7412, 7412>>, <<7416, 7417>>, <<7468, 7530>>, <<7544, 7544>>,
      <<7579, 7679>>, <<8125, 8125>>, <<8127, 8129>>, <<8141, 8143>>,
      <<8157, 8159>>, <<8173, 8175>>, <<8189, 8190>>, <<8203, 8207>>,
      <<8216, 8217>>, <<8228, 8228>>, <<8231, 8231>>, <<8234, 8238>>,
      <<8288, 8292>>, <<8294, 8303>>, <<8305, 8305>>, <<8319, 8319>>,
      <<8336, 8348>>, <<8400, 8432>>, <<11388, 11389>>, <<11503, 11505>>,
      <<11631, 11631>>, <<11647, 11647>>, <<11744, 11775>>, <<11823, 11823>>,
      <<12293, 12293>>, <<12330, 12333>>, <<12337, 12341>>, <<12347, 12347>>,
      <<12441, 12446>>, <<12540, 12542>>, <<40981, 40981>>, <<42232, 42237>>,
      <<42508, 42508>>, <<42607, 42610>>, <<42612, 42621>>, <<42623, 42623>>,
      <<42652, 42655>>, <<42736, 42737>>, <<42752, 42785>>, <<42864, 42864>>,
      <<42888, 42890>>, <<42994, 42996>>, <<43000, 43001>>, <<43010, 43010>>,
      <<43014, 43014>>, <<43019, 43019>>, <<43045, 43046>>, <<43052, 43052>>,
      <<43204, 43205>>, <<43232, 43249>>, <<43263, 43263>>, <<43302, 43309>>,
      <<43335, 43345>>, <<43392, 43394>>, <<43443, 43443>>, <<43446, 43449>>,
      <<43452, 43453>>, <<43471, 43471>>, <<43493, 43494>>, <<43561, 43566>>,
      <<43569, 43570>>, <<43573, 43574>>, <<43587, 43587>>, <<43596, 43596>>,
      <<43632, 43632>>, <<43644, 43644>>, <<43696, 43696>>, <<43698, 43700>>,
      <<43703, 43704>>, <<43710, 43711>>, <<43713, 43713>>, <<43741, 43741>>,
      <<43756, 43757>>, <<43763, 43764>>, <<43766, 43766>>, <<43867, 43871>>,
      <<43881, 43883>>, <<44005, 44005>>, <<44008, 44008>>, <<44013, 44013>>,
      <<64286, 64286>>, <<64434, 64450>>, <<65024, 65039>>, <<65043, 65043>>,
      <<65056, 65071>>, <<65106, 65106>>, <<65109, 65109>>, <<65279, 65279>>,
      <<65287, 65287>>, <<65294, 65294>>, <<65306, 65306>>, <<65342, 65342>>,
      <<65344, 65344>>, <<65392, 65392>>, <<65438, 65439>>, <<65507, 65507>>,
      <<65529, 65531>>, <<66045, 66045>>, <<66272, 66272>>, <<66422, 66426>>,
      <<67456, 67461>>, <<67463, 67504>>, <<67506, 67514>>, <<68097, 68099>>,
      <<68101, 68102>>, <<68108, 68111>>, <<68152, 68154>>, <<68159, 68159>>,
      <<68325, 68326>>, <<68900, 68903>>, <<69291, 69292>>, <<69446, 69456>>,
      <<69506, 69509>>, <<69633, 69633>>, <<69688, 69702>>, <<69744, 69744>>,
      <<69747, 69748>>, <<69759, 69761>>, <<69811, 69814>>, <<69817, 69818>>,
      <<69821, 69821>>, <<69826, 69826>>, <<69837, 69837>>, <<69888, 69890>>,
      <<69927, 69931>>, <<69933, 69940>>, <<70003, 70003>>, <<70016, 70017>>,
      <<70070, 70078>>, <<70089, 70092>>, <<70095, 70095>>, <<70191, 70193>>,
      <<70196, 70196>>, <<70198, 70199>>, <<70206, 70206>>, <<70367, 70367>>,
      <<70371, 70378>>, <<70400, 70401>>, <<70459, 70460>>, <<70464, 70464>>,
      <<70502, 70508>>, <<70512, 70516>>, <<70712, 70719>>, <<70722, 70724>>,
      <<70726, 70726>>, <<70750, 70750>>, <<70835, 70840>>, <<70842, 70842>>,
      <<70847, 70848>>, <<70850, 70851>>, <<71090, 71093>>, <<71100, 71101>>,
      <<71103, 71104>>, <<71132, 71133>>, <<71219, 71226>>, <<71229, 71229>>,
      <<71231, 71232>>, <<71339, 71339>>, <<71341, 71341>>, <<71344, 71349>>,
      <<71351, 71351>>, <<71453, 71455>>, <<71458, 71461>>, <<71463, 71467>>,
      <<71727, 71735>>, <<71737, 71738>>, <<71995, 71996>>, <<71998, 71998>>,
      <<72003, 72003>>, <<72148, 72151>>, <<72154, 72155>>, <<72160, 72160>>,
      <<72193, 72202>>, <<72243, 72248>>, <<72251, 72254>>, <<72263, 72263>>,
      <<72273, 72278>>, <<72281, 72283>>, <<72330, 72342>>, <<72344, 72345>>,
      <<72752, 72758>>, <<72760, 72765>>, <<72767, 72767>>, <<72850, 72871>>,
      <<72874, 72880>>, <<72882, 72883>>, <<72885, 72886>>, <<73009, 73014>>,
      <<73018, 73018>>, <<73020, 73021>>, <<73023, 73029>>, <<73031, 73031>>,
      <<73104, 73105>>, <<73109, 73109>>, <<73111, 73111>>, <<73459, 73460>>,
      <<78896, 78904>>, <<92912, 92916>>, <<92976, 92982>>, <<92992, 92995>>,
      <<94031, 94031>>, <<94095, 94111>>, <<94176, 94177>>, <<94179, 94180>>,
      <<110576, 110579>>, <<110581, 110587>>, <<110589, 110590>>,
      <<113821, 113822>>, <<113824, 113827>>, <<118528, 118573>>,
      <<118576, 118598>>, <<119143, 119145>>, <<119155, 119170>>,
      <<119173, 119179>>, <<119210, 119213>>, <<119362, 119364>>,
      <<121344, 121398>>, <<121403, 121452>>, <<121461, 121461>>,
      <<121476, 121476>>, <<121499, 121503>>, <<121505, 121519>>,
      <<122880, 122886>>, <<122888, 122904>>, <<122907, 122913>>,
      <<122915, 122916>>, <<122918, 122922>>, <<123184, 123197>>,
      <<123566, 123566>>, <<123628, 123631>>, <<125136, 125142>>,
      <<125252, 125259>>, <<127995, 127999>>, <<917505, 917505>>,
      <<917536, 917631>>, <<917760, 917999>>>>

\* the small letter of one character on its own: capital I with dot above
\* (U+0130) is i followed by a combining dot.  ASCII is mapped without the
\* table.
LowerChar(c) ==
    LET Shifted(code, r) ==
            IF r = 0 THEN <<c>> ELSE <<CharOf(code + LowerTable[r][4])>>
        Lowered(code) ==
            IF code >= 128 THEN Shifted(code, Row(LowerTable, code))
            ELSE IF 65 <= code /\ code <= 90 THEN <<Chr(code + 32)>>
            ELSE <<c>>
    IN IF c = "U+0130" THEN <<"i", "U+0307">> ELSE Lowered(Ord(c))

\* str.upper() of one character.  ASCII is mapped without the tables.
UpperChar(c) ==
    LET Shifted(code, r) ==
            IF r = 0 THEN <<c>> ELSE <<CharOf(code + UpperTable[r][4])>>
        Special(code, r) ==
            IF r = 0 THEN Shifted(code, Row(UpperTable, code))
            ELSE Text(UpperSpecial[r][2])
        Uppered(code) ==
            IF code >= 128 THEN Special(code, Row(UpperSpecial, code))
            ELSE IF 97 <= code /\ code <= 122 THEN <<Chr(code - 32)>>
            ELSE <<c>>
    IN Uppered(Ord(c))

\* the title case of one character: its capital, but for the characters of
\* the title tables
TitleChar(c) ==
    LET Shifted(code, r) ==
            IF r = 0 THEN UpperChar(c) ELSE <<CharOf(code + TitleTable[r][4])>>
        Special(code, r) ==
            IF r = 0 THEN Shifted(code, Row(TitleTable, code))
            ELSE Text(TitleSpecial[r][2])
        Titled(code) ==
            IF code >= 128 THEN Special(code, Row(TitleSpecial, code))
            ELSE UpperChar(c)
    IN Titled(Ord(c))

\* Whether the capital sigma at s[i] ends a word: a cased character comes
\* before it and none after it, case-ignorable characters skipped.
FinalSigma(s, i) ==
    LET RECURSIVE Before(_)
        Before(j) ==
            IF j >= 1 /\ InRanges(CaseIgnorableRanges, Ord(s[j])) THEN Before(j - 1) ELSE j
        RECURSIVE After(_)
        After(j) ==
            IF j <= Len(s) /\ InRanges(CaseIgnorableRanges, Ord(s[j])) THEN After(j + 1)
            ELSE j
        Final(j, k) ==
            /\ j >= 1
            /\ InRanges(CasedRanges, Ord(s[j]))
            /\ (k > Len(s) \/ ~InRanges(CasedRanges, Ord(s[k])))
    IN Final(Before(i - 1), After(i + 1))

RECURSIVE LowerFrom(_, _)
\* s[i..] in small letters, each character within the whole of s: a capital
\* sigma (U+03A3) is the final sigma (U+03C2) where it ends a word, else the
\* small sigma (U+03C3)
LowerFrom(s, i) ==
    IF i > Len(s) THEN <<>>
    ELSE (IF s[i] # "U+03A3" THEN LowerChar(s[i])
          ELSE IF FinalSigma(s, i) THEN <<"U+03C2">> ELSE <<"U+03C3">>)
         \o LowerFrom(s, i + 1)

\* str.lower() leaving every character as it is
LowerMut(s) == s

\* str.lower()
Lower(s) == LowerFrom(s, 1)

\* ------------------------------------------------ tribal knowledge loader
\* lru_cache(maxsize=32) on load_tribal_kb.
TribalCacheSize == 32

\* TRIBAL_KB_DIR (tribal_kb_loader.py:10-11): the directory tribal_kb beside
\* the package, at app/utils/tribal_kb by the docstring; a path is the
\* sequence of its names from the root.
TribalKbDir ==
    <<<<"a", "p", "p">>, <<"u", "t", "i", "l", "s">>,
      <<"t", "r", "i", "b", "a", "l", "_", "k", "b">>>>

\* The files of that directory, the only ones the model's file system has
\* besides the package's own.
\* kind: "object", "nonobject" (valid JSON, not a dict), "invalid" (json.load
\* raises).
TribalFiles ==
    (<<"e", "t", "l", ".", "j", "s", "o", "n">> :>
        [kind |-> "object", data |-> JObj([style |-> JStr("idempotent loads")])])
    @@ (<<"a", "p", "i", ".", "j", "s", "o", "n">> :>
        [kind |-> "nonobject", data |-> JList(<<>>)])
    @@ (<<"b", "a", "d", ".", "j", "s", "o", "n">> :>
        [kind |-> "invalid", data |-> JNull])

\* The file at os.path.join(TRIBAL_KB_DIR, f"{normalized}.json"), as the file
\* system resolves the path: an absolute path starts from the root; an empty
\* name and "." stay in the directory, ".." goes to its parent, any other name
\* must be a directory.  kind is "missing" when os.path.exists is false.
TribalFile(normalized) ==
    LET path == normalized \o <<".", "j", "s", "o", "n">>
        missing == [kind |-> "missing", data |-> JNull]
        \* the directories: TRIBAL_KB_DIR, those above it, the package beside it
        dirs == {SubSeq(TribalKbDir, 1, k) : k \in 0..Len(TribalKbDir)}
                \cup {Append(SubSeq(TribalKbDir, 1, Len(TribalKbDir) - 1),
                              <<"c", "o", "d", "e", "r", "_", "a", "g", "e", "n", "t">>)}
        RECURSIVE Walk(_, _, _)
        \* dir: the directory reached; name: the name being read; i: position
        Walk(dir, name, i) ==
            IF i > Len(path)
            THEN IF dir = TribalKbDir /\ name \in DOMAIN TribalFiles
                 THEN TribalFiles[name] ELSE missing
            ELSE IF path[i] # "/" THEN Walk(dir, Append(name, path[i]), i + 1)
            ELSE IF name \in {<<>>, <<".">>} THEN Walk(dir, <<>>, i + 1)
            ELSE IF name = <<".", ".">>
            THEN Walk(SubSeq(dir, 1, Len(dir) - 1), <<>>, i + 1)
            ELSE IF Append(dir, name) \in dirs
            THEN Walk(Append(dir, name), <<>>, i + 1)
            ELSE missing
    IN Walk(IF path[1] = "/" THEN <<>> ELSE TribalKbDir, <<>>, 1)

\* The body of load_tribal_kb, run on a cache miss.
LoadTribalKbBody(project_type) ==
    IF project_type = <<>> THEN JObj(EmptyDict)
    ELSE LET f == TribalFile(Lower(Strip(project_type)))
         IN IF f.kind = "object" THEN f.data ELSE JObj(EmptyDict)

CacheIndex(cache, key) ==
    IF \E i \in 1..Len(cache) : cache[i].key = key
    THEN CHOOSE i \in 1..Len(cache) : cache[i].key = key
    ELSE 0

RemoveAt(s, i) == SubSeq(s, 1, i - 1) \o SubSeq(s, i + 1, Len(s))

\* load_tribal_kb through its lru_cache: the cache is keyed by the argument
\* as passed, kept in least-recently-used-first order, and drops its oldest
\* entry when full.  hit is TRUE when the body did not run.
load_tribal_kb(cache, project_type) ==
    LET i == CacheIndex(cache, project_type)
    IN IF i # 0
       THEN [val |-> cache[i].val, hit |-> TRUE,
             cache |-> Append(RemoveAt(cache, i), cache[i])]
       ELSE LET e == [key |-> project_type, val |-> LoadTribalKbBody(project_type)]
                kept == IF Len(cache) >= TribalCacheSize THEN Tail(cache) ELSE cache
            IN [val |-> e.val, hit |-> FALSE, cache |-> Append(kept, e)]

\* ------------------------------------------------------- context loader
SecBrd == [artifact_name |-> <<"B", "R", "D">>, document_name |-> "brd.md",
           section_name |-> "Scope", description |-> "scope text"]
SecCode == [artifact_name |-> <<"c", "o", "d", "e">>, document_name |-> "etl.py",
            section_name |-> "load", description |-> "def load(): ..."]
SecCodeUpper == [artifact_name |-> <<"C", "o", "d", "e">>, document_name |-> "etl.py",
                 section_name |-> "save", description |-> "def save(): ..."]

RECURSIVE SelectSeq2(_, _)
\* the loop at context_agent.py:100-103
SelectSeq2(all_sections, acc) ==
    IF all_sections = <<>> THEN acc
    ELSE SelectSeq2(Tail(all_sections),
                    IF Lower(Head(all_sections).artifact_name) = <<"c", "o", "d", "e">>
                    THEN Append(acc, Head(all_sections)) ELSE acc)

\* code_sections as computed by load_coder_context and load_coder_context_sqlite
CodeSections(all_sections) ==
    LET code_sections == SelectSeq2(all_sections, <<>>)
    IN IF code_sections = <<>> THEN all_sections ELSE code_sections

\* get_messages(db, session_id, limit=10)
HistoryLimit == 10

LastN(s, n) == IF Len(s) <= n THEN s ELSE SubSeq(s, Len(s) - n + 1, Len(s))

\* str.capitalize(): the first character in title case, the others in small
\* letters
Capitalize(role) ==
    IF role = <<>> THEN <<>> ELSE TitleChar(role[1]) \o LowerFrom(role, 2)

RECURSIVE OfSession(_, _)
OfSession(msgs, sid) ==
    IF msgs = <<>> THEN <<>>
    ELSE (IF Head(msgs).session_id = sid THEN <<Head(msgs)>> ELSE <<>>)
         \o OfSession(Tail(msgs), sid)

GetMessages(msgs, sid, limit) == LastN(OfSession(msgs, sid), limit)

\* _summarize_history_for_coder: one "{Role}: {content}" line per message;
\* raised is the outcome of get_messages.
SummarizeHistory(msgs, sid, raised) ==
    IF sid.kind = "none" \/ raised THEN <<>>
    ELSE LET history == GetMessages(msgs, sid, HistoryLimit)
         IN [i \in 1..Len(history) |-> <<Capitalize(history[i].role), history[i].content>>]

\* -------------------------------------------------------- exemplar finder
BuildExemplar(code_sections, section_idx) ==
    LET n == Len(code_sections)
        entry == code_sections[IF section_idx < 0 THEN section_idx + n + 1 ELSE section_idx + 1]
    IN [index |-> section_idx,
        artifact_name |-> entry.artifact_name,
        document_name |-> entry.document_name,
        section_name |-> entry.section_name,
        description |-> entry.description]

\* NeighbourOffsets probing the right-hand neighbour first
NeighbourOffsetsMut == <<1, -1, 2, -2>>

NeighbourOffsets == <<-1, 1, -2, 2>>

RECURSIVE AddNeighbours(_, _, _, _, _)
\* the loop at search_agent.py:52-57, from the k-th offset on
AddNeighbours(code_sections, idx, max_exemplars, exemplars, k) ==
    IF k > Len(NeighbourOffsets) \/ Len(exemplars) >= max_exemplars THEN exemplars
    ELSE LET neighbor == idx + NeighbourOffsets[k]
         IN AddNeighbours(code_sections, idx, max_exemplars,
                          IF 0 <= neighbor /\ neighbor < Len(code_sections)
                          THEN Append(exemplars, BuildExemplar(code_sections, neighbor))
                          ELSE exemplars,
                          k + 1)

\* find_function_exemplars given what deep_search returns.  raised is TRUE
\* when code_sections[idx] raises IndexError; called is TRUE when deep_search
\* was invoked.
find_function_exemplars(code_sections, result, max_exemplars) ==
    LET n == Len(code_sections) IN
    IF n = 0 THEN [raised |-> FALSE, exemplars |-> <<>>, called |-> FALSE]
    ELSE IF result.t # "obj" THEN [raised |-> FALSE, exemplars |-> <<>>, called |-> TRUE]
    ELSE LET idx == DictGet(result, "chosen_section_index", JNull)
         IN IF idx.t \notin {"num", "bool"}
            THEN [raised |-> FALSE, exemplars |-> <<>>, called |-> TRUE]
            ELSE LET i == IF idx.t = "bool" THEN (IF idx.v THEN 1 ELSE 0) ELSE idx.v
                 IN IF i < -n \/ i >= n
                    THEN [raised |-> TRUE, exemplars |-> <<>>, called |-> TRUE]
                    ELSE [raised |-> FALSE, called |-> TRUE,
                          exemplars |-> AddNeighbours(code_sections, i, max_exemplars,
                                                     <<BuildExemplar(code_sections, i)>>, 1)]

\* ------------------------------------------------------ request inputs
NoSession == [kind |-> "none", name |-> "", exec |-> 0]
GivenSession(n) == [kind |-> "given", name |-> n, exec |-> 0]

\* generate_execution_session_id(user_session_id, project_id, execution_id)
DerivedSession(user, project, execution) ==
    [kind |-> "derived", name |-> <<user, project>>, exec |-> execution]

SuppliedSessions == {NoSession, GivenSession("s1")}
Requirements == {"build a loader"}
ProjectTypes == {<<"E", "T", "L", " ">>}
KnownUsers == {"alice"}
KnownProjects == {"etl_proj"}
UserIds == {"alice", "ghost"}
ProjectIds == {"etl_proj", "ghost"}

\* What the entry points' calls to the LLM return in a request.
PlanLlm == {LlmRaise, LlmText(TxtProse), LlmText(TxtPlanNoComps)}
GenRaise == [kind |-> "raise", text |-> <<>>]
GenNone == [kind |-> "none", text |-> <<>>]
GenLlm == {GenRaise, GenNone, [kind |-> "text", text |-> <<"x">>]}
ValLlm == {LlmRaise, LlmText(TxtProse), LlmText(TxtValFalse), LlmText(TxtValTrue)}

\* `call_llm(prompt) or ""` in generate_code_with_exemplars
GenOrEmpty(out) == IF out.kind = "none" THEN <<>> ELSE out.text

\* What flatten_sections yields for the stored knowledge base.
SectionLists == {<<>>, <<SecBrd, SecCode, SecCodeUpper>>}

\* What deep_search returns over n sections.
DeepResults(n) ==
    {JNull, JObj([chosen_section_index |-> JNum(0)]), JObj([chosen_section_index |-> JNum(n)])}

\* max_exemplars=3 at the two call sites
MaxExemplars == 3

\* ----------------------------------------------------------------- state
VARIABLES
    variant,        \* "remote" (coder_agent_routes) or "sqlite" (coder_agent_routes_sqlite)
    nreq,           \* requests started so far
    pc,             \* position of the request being served
    req,            \* the request's parameters
    agent_defs,     \* TRUE once the CODER agent definition row exists
    executions,     \* AgentExecution rows; execution_id is the position
    messages,       \* conversation messages, oldest first
    sessions,       \* session rows made by ensure_session
    tribal_cache,   \* the lru_cache of load_tribal_kb
    execution_id, session_id, plan, context, exemplars, raw_code, validation,
    exc,            \* the exception travelling to the except clause
    plan_llm,       \* what call_llm did in the planner
    val_llm,        \* what call_llm did in the validator (NoLlm: not called)
    resp,           \* the HTTP response
    caught,         \* failures swallowed inside a stage or a try/except of the route
    escaped,        \* failures that reached the route's except clause or the framework
    invoked,        \* stages and external calls made while serving the request
    snap,           \* the persisted state when the request arrived
    search_call,    \* what find_function_exemplars was called with and deep_search returned
    tribal_call,    \* the load_tribal_kb call made for the context: argument, result, hit
    looked_up       \* the project types load_tribal_kb has been called with so far

db == <<agent_defs, executions, messages, sessions>>
locals == <<execution_id, session_id, plan, context, exemplars, raw_code, validation, exc>>
hist == <<plan_llm, val_llm, caught, escaped, invoked, snap>>
calls == <<search_call, tribal_call, looked_up>>
vars == <<variant, nreq, pc, req, agent_defs, executions, messages, sessions, tribal_cache,
          execution_id, session_id, plan, context, exemplars, raw_code, validation, exc,
          resp, plan_llm, val_llm, caught, escaped, invoked, snap,
          search_call, tribal_call, looked_up>>

NoReq == [session_id |-> NoSession, requirements |-> "", project_type |-> <<>>,
          user |-> "", project |-> ""]
NoPlan == [components |-> JNull, search_queries |-> JNull]
NoContext == [project_data |-> <<>>, code_sections |-> <<>>, tribal_kb |-> JNull,
              conversation_history |-> <<>>]
NoSearch == [called |-> FALSE, result |-> JNull, max_exemplars |-> 0]
NoTribal == [project_type |-> <<>>, val |-> JNull, hit |-> FALSE]
NoValidation == [is_valid |-> FALSE, details |-> JNull]
NoResp == [status |-> 0, body |-> [detail |-> ""]]
Persisted == [agent_defs |-> agent_defs, executions |-> executions,
              messages |-> messages, sessions |-> sessions]

HttpError(code, detail) == [status |-> code, body |-> [detail |-> detail]]
\* an exception no handler catches: the framework answers 500
Unhandled == HttpError(500, "Internal Server Error")

\* An exception: a fastapi.HTTPException with its status code, or any other
\* Exception; detail names the call that raised it.
NoException == [type |-> "none", status_code |-> 0, detail |-> ""]
Exception(detail) == [type |-> "Exception", status_code |-> 0, detail |-> detail]
HTTPException(status_code, detail) ==
    [type |-> "HTTPException", status_code |-> status_code, detail |-> detail]
\* what a call to a collaborator may raise
Raisable(detail) ==
    {Exception(detail), HTTPException(404, detail), HTTPException(503, detail)}
\* FastAPI's answer to an exception that leaves the entry point
Framework(e) ==
    IF e.type = "HTTPException" THEN HttpError(e.status_code, e.detail) ELSE Unhandled

Init ==
    /\ variant \in {"remote", "sqlite"}
    /\ nreq = 0
    /\ pc = "idle"
    /\ req = NoReq
    /\ agent_defs = FALSE
    /\ executions = <<>>
    /\ messages = <<>>
    /\ sessions = {}
    /\ tribal_cache = <<>>
    /\ execution_id = 0
    /\ session_id = NoSession
    /\ plan = NoPlan
    /\ context = NoContext
    /\ exemplars = <<>>
    /\ raw_code = <<>>
    /\ validation = NoValidation
    /\ exc = NoException
    /\ resp = NoResp
    /\ plan_llm = NoLlm
    /\ val_llm = NoLlm
    /\ caught = {}
    /\ escaped = {}
    /\ invoked = {}
    /\ snap = [agent_defs |-> FALSE, executions |-> <<>>, messages |-> <<>>, sessions |-> {}]
    /\ search_call = NoSearch
    /\ tribal_call = NoTribal
    /\ looked_up = {}

\* A request arrives: FastAPI binds the parameters and calls generate_code.
NewRequest ==
    /\ pc \in {"idle", "done"}
    /\ nreq < MaxRequests
    /\ \E sid \in SuppliedSessions, rq \in Requirements, pt \in ProjectTypes,
          u \in UserIds, p \in ProjectIds :
          /\ variant = "sqlite" => u = "alice"
          /\ req' = [session_id |-> sid, requirements |-> rq, project_type |-> pt,
                     user |-> u, project |-> p]
          /\ session_id' = sid
    /\ nreq' = nreq + 1
    /\ pc' = IF variant = "remote" THEN "entities" ELSE "memory"
    /\ execution_id' = 0
    /\ plan' = NoPlan
    /\ context' = NoContext
    /\ exemplars' = <<>>
    /\ raw_code' = <<>>
    /\ validation' = NoValidation
    /\ exc' = NoException
    /\ resp' = NoResp
    /\ plan_llm' = NoLlm
    /\ val_llm' = NoLlm
    /\ caught' = {}
    /\ escaped' = {}
    /\ invoked' = {}
    /\ snap' = Persisted
    /\ search_call' = NoSearch
    /\ tribal_call' = NoTribal
    /\ UNCHANGED <<variant, db, tribal_cache, looked_up>>

\* CheckEntities without the test of the project lookup
CheckEntitiesMut ==
    /\ pc = "entities"
    /\ IF req.user \notin KnownUsers
       THEN /\ resp' = HttpError(404, <<"User not found", req.user>>)
            /\ pc' = "done"
       ELSE /\ pc' = "create"
            /\ UNCHANGED resp
    /\ UNCHANGED <<variant, nreq, req, db, tribal_cache, locals, hist, calls>>

\* coder_agent_routes.py:54-67
CheckEntities ==
    /\ pc = "entities"
    /\ IF req.user \notin KnownUsers
       THEN /\ resp' = HttpError(404, <<"User not found", req.user>>)
            /\ pc' = "done"
       ELSE IF req.project \notin KnownProjects
       THEN /\ resp' = HttpError(404, <<"Project not found", req.project>>)
            /\ pc' = "done"
       ELSE /\ pc' = "create"
            /\ UNCHANGED resp
    /\ UNCHANGED <<variant, nreq, req, db, tribal_cache, locals, hist, calls>>

\* coder_agent_routes.py:71-96
CreateExecution ==
    /\ pc = "create"
    /\ agent_defs' = TRUE
    /\ executions' = Append(executions,
                            [status |-> "STARTED", writes |-> 0,
                             user_prompt |-> req.requirements,
                             agent_response_text |-> <<>>])
    /\ execution_id' = Len(executions) + 1
    /\ pc' = "session"
    /\ UNCHANGED <<variant, nreq, req, messages, sessions, tribal_cache, session_id, plan,
                   context, exemplars, raw_code, validation, exc, resp, hist, calls>>

\* coder_agent_routes.py:98-101; the call is outside every try block
DeriveSession ==
    /\ pc = "session"
    /\ IF session_id.kind # "none"
       THEN /\ pc' = "log_user"
            /\ UNCHANGED <<session_id, resp, escaped>>
       ELSE \E e \in {NoException} \cup Raisable("session") :
              IF e = NoException
              THEN /\ session_id' = DerivedSession(req.user, req.project, execution_id)
                   /\ pc' = "log_user"
                   /\ UNCHANGED <<resp, escaped>>
              ELSE /\ escaped' = escaped \cup {"session"}
                   /\ resp' = Framework(e)
                   /\ pc' = "done"
                   /\ UNCHANGED session_id
    /\ UNCHANGED <<variant, nreq, req, db, tribal_cache, execution_id, plan, context,
                   exemplars, raw_code, validation, exc, plan_llm, val_llm, caught,
                   invoked, snap, calls>>

\* the roles the entry points store messages under
RoleUser == <<"u", "s", "e", "r">>
RoleAssistant == <<"a", "s", "s", "i", "s", "t", "a", "n", "t">>

\* UserMessage stored under the assistant's role
UserMessageMut(sid, r) ==
    [session_id |-> sid, role |-> RoleAssistant,
     content |-> <<"[CODER Generation Request]", r.project_type, r.requirements>>]

UserMessage(sid, r) ==
    [session_id |-> sid, role |-> RoleUser,
     content |-> <<"[CODER Generation Request]", r.project_type, r.requirements>>]

AssistantMessage(sid, project_name, r, is_valid, code) ==
    [session_id |-> sid, role |-> RoleAssistant,
     content |-> <<"[CODER Generated Code]", project_name, r.project_type, is_valid, code>>]

\* coder_agent_routes.py:103-108
LogUser ==
    /\ pc = "log_user"
    /\ \E ok \in BOOLEAN :
         IF ok
         THEN /\ messages' = Append(messages, UserMessage(session_id, req))
              /\ UNCHANGED caught
         ELSE /\ caught' = caught \cup {"mem_user"}
              /\ UNCHANGED messages
    /\ pc' = "plan"
    /\ UNCHANGED <<variant, nreq, req, agent_defs, executions, sessions, tribal_cache,
                   locals, resp, plan_llm, val_llm, escaped, invoked, snap, calls>>

\* coder_agent_routes_sqlite.py:51-68; nothing here is inside a try block
SqliteMemory ==
    /\ pc = "memory"
    /\ IF session_id.kind = "none"
       THEN /\ pc' = "find_project"
            /\ UNCHANGED <<messages, sessions, resp, escaped>>
       ELSE \E out \in {"ok", "mem_session", "mem_user", "mem_read"} :
              /\ sessions' = IF out = "mem_session" THEN sessions
                             ELSE sessions \cup {session_id}
              /\ messages' = IF out \in {"mem_session", "mem_user"} THEN messages
                             ELSE Append(messages, UserMessage(session_id, req))
              /\ IF out = "ok"
                 THEN /\ pc' = "find_project"
                      /\ UNCHANGED <<resp, escaped>>
                 ELSE /\ escaped' = escaped \cup {out}
                      /\ \E e \in Raisable(out) : resp' = Framework(e)
                      /\ pc' = "done"
    /\ UNCHANGED <<variant, nreq, req, agent_defs, executions, tribal_cache, locals,
                   plan_llm, val_llm, caught, invoked, snap, calls>>

\* coder_agent_routes_sqlite.py:71-81
FindProject ==
    /\ pc = "find_project"
    /\ IF req.project \notin KnownProjects
       THEN /\ resp' = HttpError(404, <<"Project not found", req.project>>)
            /\ pc' = "done"
       ELSE /\ pc' = "plan"
            /\ UNCHANGED resp
    /\ UNCHANGED <<variant, nreq, req, db, tribal_cache, locals, hist, calls>>

\* The LLM answered, and the answer is not a JSON object.
Malformed(llm) ==
    /\ llm.kind \in {"none", "text"}
    /\ LET r == JsonLoads(OrEmpty(llm)) IN ~(r.ok /\ r.val.t = "obj")

\* step 4 of both entry points
Plan ==
    /\ pc = "plan"
    /\ \E llm \in PlanLlm :
         /\ plan' = plan_code_generation(req.requirements, llm)
         /\ plan_llm' = llm
    /\ invoked' = invoked \cup {"plan"}
    /\ pc' = "context"
    /\ UNCHANGED <<variant, nreq, req, db, tribal_cache, execution_id, session_id, context,
                   exemplars, raw_code, validation, exc, resp, val_llm, caught, escaped,
                   snap, calls>>

\* the part common to load_coder_context and load_coder_context_sqlite
BuildContext(all_sections, history_raised) ==
    LET t == load_tribal_kb(tribal_cache, req.project_type)
    IN /\ context' = [project_data |-> all_sections,
                      code_sections |-> CodeSections(all_sections),
                      tribal_kb |-> t.val,
                      conversation_history |->
                          SummarizeHistory(messages, session_id, history_raised)]
       /\ tribal_cache' = t.cache
       /\ tribal_call' = [project_type |-> req.project_type, val |-> t.val, hit |-> t.hit]
       /\ looked_up' = looked_up \cup {req.project_type}

\* step 5, remote: load_coder_context; the knowledge base fetch may raise
LoadContext ==
    /\ pc = "context"
    /\ variant = "remote"
    /\ \/ /\ exc' \in Raisable("ctx")
          /\ escaped' = escaped \cup {"ctx"}
          /\ pc' = "handler"
          /\ UNCHANGED <<context, tribal_cache, tribal_call, looked_up>>
       \/ /\ \E all_sections \in SectionLists, history_raised \in BOOLEAN :
               BuildContext(all_sections, history_raised)
          /\ pc' = "search"
          /\ UNCHANGED <<exc, escaped>>
    /\ invoked' = invoked \cup {"context"}
    /\ UNCHANGED <<variant, nreq, req, db, execution_id, session_id, plan, exemplars,
                   raw_code, validation, resp, plan_llm, val_llm, caught, snap,
                   search_call>>

\* step 5, local: load_coder_context_sqlite on the project already loaded
LoadContextSqlite ==
    /\ pc = "context"
    /\ variant = "sqlite"
    /\ \E all_sections \in SectionLists, history_raised \in BOOLEAN :
         BuildContext(all_sections, history_raised)
    /\ pc' = "search"
    /\ invoked' = invoked \cup {"context"}
    /\ UNCHANGED <<variant, nreq, req, db, execution_id, session_id, plan, exemplars,
                   raw_code, validation, exc, resp, plan_llm, val_llm, caught, escaped,
                   snap, search_call>>

\* step 6 of both entry points
Search ==
    /\ pc = "search"
    /\ \E result \in DeepResults(Len(context.code_sections)) :
         LET r == find_function_exemplars(context.code_sections, result, MaxExemplars)
         IN /\ search_call' = [called |-> r.called,
                               result |-> IF r.called THEN result ELSE JNull,
                               max_exemplars |-> MaxExemplars]
            /\ IF r.raised
               THEN /\ exc' = Exception("search")
                    /\ escaped' = escaped \cup {"search"}
                    /\ pc' = "handler"
                    /\ UNCHANGED exemplars
               ELSE /\ exemplars' = r.exemplars
                    /\ pc' = "generate"
                    /\ UNCHANGED <<exc, escaped>>
    /\ invoked' = invoked \cup {"search"}
    /\ UNCHANGED <<variant, nreq, req, db, tribal_cache, execution_id, session_id, plan,
                   context, raw_code, validation, resp, plan_llm, val_llm, caught, snap,
                   tribal_call, looked_up>>

\* generate_code_with_exemplars: the prompt goes to the LLM, whose failure
\* is logged and re-raised
Generate ==
    /\ pc = "generate"
    /\ \E llm \in GenLlm :
         IF llm.kind = "raise"
         THEN /\ exc' \in Raisable("gen")
              /\ escaped' = escaped \cup {"gen_llm"}
              /\ pc' = "handler"
              /\ UNCHANGED raw_code
         ELSE /\ raw_code' = GenOrEmpty(llm)
              /\ pc' = "validate"
              /\ UNCHANGED <<exc, escaped>>
    /\ context' = NoContext
    /\ search_call' = NoSearch
    /\ tribal_call' = NoTribal
    /\ invoked' = invoked \cup {"generate"}
    /\ UNCHANGED <<variant, nreq, req, db, tribal_cache, execution_id, session_id, plan,
                   exemplars, validation, resp, plan_llm, val_llm, caught, snap,
                   looked_up>>

\* step 7b of both entry points
Validate ==
    /\ pc = "validate"
    /\ \E llm \in ValLlm :
         LET r == validate_generated_code(raw_code, llm)
         IN /\ validation' = [is_valid |-> r.is_valid, details |-> r.details]
            /\ val_llm' = IF r.called THEN llm ELSE NoLlm
    /\ invoked' = invoked \cup {"validate"}
    /\ pc' = "log_assistant"
    /\ UNCHANGED <<variant, nreq, req, db, tribal_cache, execution_id, session_id, plan,
                   context, exemplars, raw_code, exc, resp, plan_llm, caught, escaped,
                   snap, calls>>

\* coder_agent_routes.py:145-153
LogAssistant ==
    /\ pc = "log_assistant"
    /\ variant = "remote"
    /\ \E ok \in BOOLEAN :
         IF ok
         THEN /\ messages' = Append(messages,
                     AssistantMessage(session_id, req.project, req,
                                      validation.is_valid, raw_code))
              /\ UNCHANGED caught
         ELSE /\ caught' = caught \cup {"mem_asst"}
              /\ UNCHANGED messages
    /\ pc' = "finalize"
    /\ UNCHANGED <<variant, nreq, req, agent_defs, executions, sessions, tribal_cache,
                   locals, resp, plan_llm, val_llm, escaped, invoked, snap, calls>>

\* coder_agent_routes_sqlite.py:116-123
LogAssistantSqlite ==
    /\ pc = "log_assistant"
    /\ variant = "sqlite"
    /\ IF session_id.kind = "none"
       THEN /\ pc' = "respond"
            /\ UNCHANGED <<messages, exc, escaped>>
       ELSE \E ok \in BOOLEAN :
              IF ok
              THEN /\ messages' = Append(messages,
                          AssistantMessage(session_id, req.project, req,
                                           validation.is_valid, raw_code))
                   /\ pc' = "respond"
                   /\ UNCHANGED <<exc, escaped>>
              ELSE /\ exc' \in Raisable("mem_asst")
                   /\ escaped' = escaped \cup {"mem_asst"}
                   /\ pc' = "handler"
                   /\ UNCHANGED messages
    /\ UNCHANGED <<variant, nreq, req, agent_defs, executions, sessions, tribal_cache,
                   execution_id, session_id, plan, context, exemplars, raw_code, validation,
                   resp, plan_llm, val_llm, caught, invoked, snap, calls>>

\* agent_execution.update(db, db_obj=execution, obj_in={status, agent_response_text, ...})
UpdateExecution(id, status, text) ==
    [executions EXCEPT ![id] = [@ EXCEPT !.status = status,
                                          !.writes = @ + 1,
                                          !.agent_response_text = text]]

\* coder_agent_routes.py:155-164; an update that raises persists nothing
Finalize ==
    /\ pc = "finalize"
    /\ \E ok \in BOOLEAN :
         IF ok
         THEN /\ executions' = UpdateExecution(execution_id,
                     IF validation.is_valid THEN "COMPLETED" ELSE "AWAITING_FEEDBACK",
                     raw_code)
              /\ pc' = "respond"
              /\ UNCHANGED <<exc, escaped>>
         ELSE /\ exc' \in Raisable("update")
              /\ escaped' = escaped \cup {"update"}
              /\ pc' = "handler"
              /\ UNCHANGED executions
    /\ UNCHANGED <<variant, nreq, req, agent_defs, messages, sessions, tribal_cache,
                   execution_id, session_id, plan, context, exemplars, raw_code, validation,
                   resp, plan_llm, val_llm, caught, invoked, snap, calls>>

\* the body returned at coder_agent_routes.py:166-177 and
\* coder_agent_routes_sqlite.py:125-134;
\* the remote body carries project_id and execution_id, the local one does not
Body(message) ==
    IF variant = "remote"
    THEN [success |-> TRUE, message |-> message,
          project_id |-> req.project, project_name |-> req.project,
          execution_id |-> execution_id, session_id |-> session_id,
          plan |-> plan, exemplars_used |-> exemplars, code |-> raw_code,
          validation |-> validation.details]
    ELSE [success |-> TRUE, message |-> message,
          project_name |-> req.project, session_id |-> session_id,
          plan |-> plan, exemplars_used |-> exemplars, code |-> raw_code,
          validation |-> validation.details]

\* SuccessBody with the two messages exchanged
SuccessBodyMut ==
    Body(IF validation.is_valid THEN "Code generation completed with warnings"
         ELSE "Code generation completed")

SuccessBody ==
    Body(IF validation.is_valid THEN "Code generation completed"
         ELSE "Code generation completed with warnings")

Respond ==
    /\ pc = "respond"
    /\ resp' = [status |-> 201, body |-> SuccessBody]
    /\ pc' = "done"
    /\ UNCHANGED <<variant, nreq, req, db, tribal_cache, locals, hist, calls>>

\* coder_agent_routes.py:179-196: an HTTPException is re-raised as it is; any
\* other exception marks the record FAILED and becomes a 500.  The update is
\* not guarded: what it raises leaves the entry point.
Handler ==
    /\ pc = "handler"
    /\ variant = "remote"
    /\ IF exc.type = "HTTPException"
       THEN /\ resp' = Framework(exc)
            /\ UNCHANGED <<executions, escaped>>
       ELSE \E e \in {NoException} \cup Raisable("update_failed") :
              IF e = NoException
              THEN /\ executions' = UpdateExecution(execution_id, "FAILED", <<exc.detail>>)
                   /\ resp' = HttpError(500, <<"Coder agent failed", exc.detail>>)
                   /\ UNCHANGED escaped
              ELSE /\ escaped' = escaped \cup {"update_failed"}
                   /\ resp' = Framework(e)
                   /\ UNCHANGED executions
    /\ pc' = "done"
    /\ UNCHANGED <<variant, nreq, req, agent_defs, messages, sessions, tribal_cache,
                   locals, plan_llm, val_llm, caught, invoked, snap, calls>>

\* coder_agent_routes_sqlite.py:136-144
HandlerSqlite ==
    /\ pc = "handler"
    /\ variant = "sqlite"
    /\ resp' = IF exc.type = "HTTPException" THEN Framework(exc)
               ELSE HttpError(500, <<"Coder agent failed", exc.detail>>)
    /\ pc' = "done"
    /\ UNCHANGED <<variant, nreq, req, db, tribal_cache, locals, hist, calls>>

Next ==
    \/ NewRequest
    \/ CheckEntities
    \/ CreateExecution
    \/ DeriveSession
    \/ LogUser
    \/ SqliteMemory
    \/ FindProject
    \/ Plan
    \/ LoadContext
    \/ LoadContextSqlite
    \/ Search
    \/ Generate
    \/ Validate
    \/ LogAssistant
    \/ LogAssistantSqlite
    \/ Finalize
    \/ Respond
    \/ Handler
    \/ HandlerSqlite

Spec == Init /\ [][Next]_vars

\* ------------------------------------------- the stages on their own
\* The planner and the validator are pure functions of their arguments and
\* of what the LLM answers.  SpecStages draws the arguments in its initial
\* state and applies each stage once, to any answer of the LLM.

\* Longest generated code drawn.
MaxCodeLen == 2

CodeChars == {" ", "\n", "\r", "x"}
Codes == UNION {[1..n -> CodeChars] : n \in 0..MaxCodeLen}
StageRequirements == {"build a loader", "add an endpoint"}

PlanLlmAll ==
    {LlmRaise, LlmNone} \cup
    {LlmText(t) : t \in {TxtEmpty, TxtBlank, TxtProse, TxtArray, TxtNumber, TxtEmptyObj,
                         TxtPlanFull, TxtPlanCompsOnly, TxtPlanQueriesOnly,
                         TxtPlanBadComps, TxtPlanBadQueries, TxtPlanNoComps}}

ValLlmAll ==
    {LlmRaise, LlmNone} \cup
    {LlmText(t) : t \in {TxtEmpty, TxtBlank, TxtProse, TxtArray, TxtNumber, TxtEmptyObj,
                         TxtValOk, TxtValBad, TxtValNoVerdict, TxtValStrVerdict,
                         TxtValNullVerdict, TxtValTrue, TxtValFalse}}

InitStages ==
    /\ variant = "stage"
    /\ nreq = 0
    /\ pc = "stage"
    /\ \E rq \in StageRequirements : req = [NoReq EXCEPT !.requirements = rq]
    /\ agent_defs = FALSE
    /\ executions = <<>>
    /\ messages = <<>>
    /\ sessions = {}
    /\ tribal_cache = <<>>
    /\ execution_id = 0
    /\ session_id = NoSession
    /\ plan = NoPlan
    /\ context = NoContext
    /\ exemplars = <<>>
    /\ raw_code \in Codes
    /\ validation = NoValidation
    /\ exc = NoException
    /\ resp = NoResp
    /\ plan_llm = NoLlm
    /\ val_llm = NoLlm
    /\ caught = {}
    /\ escaped = {}
    /\ invoked = {}
    /\ snap = [agent_defs |-> FALSE, executions |-> <<>>, messages |-> <<>>, sessions |-> {}]
    /\ search_call = NoSearch
    /\ tribal_call = NoTribal
    /\ looked_up = {}

\* a call of plan_code_generation
PlanStage ==
    /\ pc = "stage"
    /\ "plan" \notin invoked
    /\ \E llm \in PlanLlmAll :
         /\ plan' = plan_code_generation(req.requirements, llm)
         /\ plan_llm' = llm
    /\ invoked' = invoked \cup {"plan"}
    /\ UNCHANGED <<variant, nreq, pc, req, db, tribal_cache, execution_id, session_id,
                   context, exemplars, raw_code, validation, exc, resp, val_llm, caught,
                   escaped, snap, calls>>

\* a call of validate_generated_code
ValidateStage ==
    /\ pc = "stage"
    /\ "validate" \notin invoked
    /\ \E llm \in ValLlmAll :
         LET r == validate_generated_code(raw_code, llm)
         IN /\ validation' = [is_valid |-> r.is_valid, details |-> r.details]
            /\ val_llm' = IF r.called THEN llm ELSE NoLlm
    /\ invoked' = invoked \cup {"validate"}
    /\ UNCHANGED <<variant, nreq, pc, req, db, tribal_cache, execution_id, session_id,
                   plan, context, exemplars, raw_code, exc, resp, plan_llm, caught,
                   escaped, snap, calls>>

NextStages ==
    \/ PlanStage
    \/ ValidateStage

SpecStages == InitStages /\ [][NextStages]_vars

\* ------------------------- the context loader and the exemplar finder
\* What flatten_sections can yield: every list of at most MaxSections sections.
AllSectionLists ==
    UNION {[1..k -> {SecBrd, SecCode, SecCodeUpper}] : k \in 0..MaxSections}

\* What deep_search can return over n sections: not a dict, a dict without
\* the key, a null, string, float or boolean index, and every integer index
\* from one below -n to n.
SearchResults(n) ==
    {JNull, JList(<<>>), JObj(EmptyDict)} \cup
    {JObj([chosen_section_index |-> x]) :
        x \in {JNull, JStr("1"), JFloat(15, -1), JBool(TRUE)}
              \cup {JNum(i) : i \in (0 - n - 1)..n}}

Caps == 0..MaxCap

InitExemplars ==
    /\ variant = "exemplars"
    /\ nreq = 0
    /\ pc = "stage"
    /\ req = NoReq
    /\ agent_defs = FALSE
    /\ executions = <<>>
    /\ messages = <<>>
    /\ sessions = {}
    /\ tribal_cache = <<>>
    /\ execution_id = 0
    /\ session_id = NoSession
    /\ plan = NoPlan
    /\ context = NoContext
    /\ exemplars = <<>>
    /\ raw_code = <<>>
    /\ validation = NoValidation
    /\ exc = NoException
    /\ resp = NoResp
    /\ plan_llm = NoLlm
    /\ val_llm = NoLlm
    /\ caught = {}
    /\ escaped = {}
    /\ invoked = {}
    /\ snap = [agent_defs |-> FALSE, executions |-> <<>>, messages |-> <<>>, sessions |-> {}]
    /\ search_call = NoSearch
    /\ tribal_call = NoTribal
    /\ looked_up = {}

\* a call of load_coder_context whose knowledge base fetch succeeds
ContextStage ==
    /\ pc = "stage"
    /\ invoked = {}
    /\ \E all_sections \in AllSectionLists : BuildContext(all_sections, FALSE)
    /\ invoked' = {"load_coder_context"}
    /\ UNCHANGED <<variant, nreq, pc, req, db, execution_id, session_id, plan, exemplars,
                   raw_code, validation, exc, resp, plan_llm, val_llm, caught, escaped,
                   snap, search_call>>

\* a call of load_coder_context_sqlite
ContextStageSqlite ==
    /\ pc = "stage"
    /\ invoked = {}
    /\ \E all_sections \in AllSectionLists : BuildContext(all_sections, FALSE)
    /\ invoked' = {"load_coder_context_sqlite"}
    /\ UNCHANGED <<variant, nreq, pc, req, db, execution_id, session_id, plan, exemplars,
                   raw_code, validation, exc, resp, plan_llm, val_llm, caught, escaped,
                   snap, search_call>>

\* a call of find_function_exemplars on the loaded code_sections
SearchStage ==
    /\ pc = "stage"
    /\ invoked # {}
    /\ "search" \notin invoked
    /\ \E result \in SearchResults(Len(context.code_sections)), max_exemplars \in Caps :
         LET r == find_function_exemplars(context.code_sections, result, max_exemplars)
         IN /\ search_call' = [called |-> r.called,
                               result |-> IF r.called THEN result ELSE JNull,
                               max_exemplars |-> max_exemplars]
            /\ IF r.raised
               THEN /\ exc' = Exception("search")
                    /\ escaped' = escaped \cup {"search"}
                    /\ UNCHANGED exemplars
               ELSE /\ exemplars' = r.exemplars
                    /\ UNCHANGED <<exc, escaped>>
    /\ invoked' = invoked \cup {"search"}
    /\ UNCHANGED <<variant, nreq, pc, req, db, tribal_cache, execution_id, session_id,
                   plan, context, raw_code, validation, resp, plan_llm, val_llm, caught,
                   snap, tribal_call, looked_up>>

NextExemplars ==
    \/ ContextStage
    \/ ContextStageSqlite
    \/ SearchStage

SpecExemplars == InitExemplars /\ [][NextExemplars]_vars

\* ------------------------------- the tribal knowledge loader on its own
\* The known type as its file is named and as a caller may spell it.
NamedTypes == {<<"e", "t", "l">>, <<"E", "T", "L", " ">>}

\* the k-th project type nobody has a file for: "z", "zz", ...
FreshType(k) == [i \in 1..k |-> "z"]

\* The project types of the next call: a named one, the unknown type looked
\* up last, or an unknown type never looked up before.
TribalInputs ==
    LET seen == Cardinality(looked_up \ NamedTypes)
    IN NamedTypes
       \cup {FreshType(k) : k \in {seen} \ {0}}
       \cup {FreshType(k) : k \in {seen + 1} \cap 1..MaxFreshTypes}

InitTribal ==
    /\ variant = "tribal"
    /\ nreq = 0
    /\ pc = "stage"
    /\ req = NoReq
    /\ agent_defs = FALSE
    /\ executions = <<>>
    /\ messages = <<>>
    /\ sessions = {}
    /\ tribal_cache = <<>>
    /\ execution_id = 0
    /\ session_id = NoSession
    /\ plan = NoPlan
    /\ context = NoContext
    /\ exemplars = <<>>
    /\ raw_code = <<>>
    /\ validation = NoValidation
    /\ exc = NoException
    /\ resp = NoResp
    /\ plan_llm = NoLlm
    /\ val_llm = NoLlm
    /\ caught = {}
    /\ escaped = {}
    /\ invoked = {}
    /\ snap = [agent_defs |-> FALSE, executions |-> <<>>, messages |-> <<>>, sessions |-> {}]
    /\ search_call = NoSearch
    /\ tribal_call = NoTribal
    /\ looked_up = {}

\* a call of load_tribal_kb
TribalLookup ==
    /\ pc = "stage"
    /\ \E project_type \in TribalInputs :
         LET t == load_tribal_kb(tribal_cache, project_type)
         IN /\ tribal_cache' = t.cache
            /\ tribal_call' = [project_type |-> project_type, val |-> t.val, hit |-> t.hit]
            /\ looked_up' = looked_up \cup {project_type}
    /\ UNCHANGED <<variant, nreq, pc, req, db, locals, resp, hist, search_call>>

SpecTribal == InitTribal /\ [][TribalLookup]_vars

\* ============================================================== claims
Planned == "plan" \in invoked
Validated == "validate" \in invoked
AllWhitespace(code) == \A i \in 1..Len(code) : code[i] \in Whitespace

\* The planner's LLM answer parsed, when it is a JSON object.
PlanAnswerIsObject ==
    /\ plan_llm.kind = "text"
    /\ JsonLoads(plan_llm.text).ok
    /\ JsonLoads(plan_llm.text).val.t = "obj"

PlanAnswerList(field) ==
    /\ PlanAnswerIsObject
    /\ field \in DOMAIN JsonLoads(plan_llm.text).val.v
    /\ JsonLoads(plan_llm.text).val.v[field].t = "list"

\* the component of the documents TxtPlanFull and TxtPlanCompsOnly
CompA == JObj([name |-> JStr("a"), description |-> JStr("d"), priority |-> JNum(1)])

\* C7: for every LLM outcome (raise, empty, non-JSON, JSON non-object, JSON
\* object) the plan's components are the parsed components when the answer
\* is an object whose components is a list and the default single
\* "main_module" component otherwise, and independently its search_queries
\* are the parsed ones when they are a list and [requirement] otherwise.
C7_ShallowMerge ==
    Planned =>
        /\ plan.components =
             IF PlanAnswerList("components")
             THEN JsonLoads(plan_llm.text).val.v["components"]
             ELSE JList(<<JObj([name |-> JStr("main_module"),
                               description |-> JStr(req.requirements),
                               priority |-> JNum(1)])>>)
        /\ plan.search_queries =
             IF PlanAnswerList("search_queries")
             THEN JsonLoads(plan_llm.text).val.v["search_queries"]
             ELSE JList(<<JStr(req.requirements)>>)

\* C7 witness: the answer has components only; the plan takes them and keeps
\* the default search_queries.
C7_Witness ==
    /\ Planned
    /\ plan_llm = LlmText(TxtPlanCompsOnly)
    /\ plan.components = JList(<<CompA>>)
    /\ plan.search_queries = JList(<<JStr(req.requirements)>>)

\* C8: for empty or whitespace-only code the validator returns is_valid
\* False, completeness_score 0.0, a non-empty errors list and a non-empty
\* suggestions list, and makes no LLM call.
C8_EmptyCode ==
    (Validated /\ AllWhitespace(raw_code)) =>
        /\ validation.is_valid = FALSE
        /\ validation.details.t = "obj"
        /\ validation.details.v["is_valid"] = JBool(FALSE)
        /\ validation.details.v["completeness_score"] = JFloat(0, 0)
        /\ validation.details.v["errors"].t = "list"
        /\ Len(validation.details.v["errors"].v) > 0
        /\ validation.details.v["suggestions"].t = "list"
        /\ Len(validation.details.v["suggestions"].v) > 0
        /\ val_llm = NoLlm

\* C8 witness: a whitespace-only code of two characters was validated.
C8_Witness ==
    /\ Validated
    /\ raw_code = <<" ", "\n">>
    /\ validation.is_valid = FALSE

ValAnswerUnusable ==
    \/ val_llm.kind = "raise"
    \/ /\ val_llm.kind \in {"none", "text"}
       /\ ~(JsonLoads(OrEmpty(val_llm)).ok /\ JsonLoads(OrEmpty(val_llm)).val.t = "obj")

\* C9: for non-empty code, when the validation LLM call raises or answers
\* with something that is not a JSON object, the result is the optimistic
\* fallback: is_valid True, no errors, completeness_score 0.7, no
\* suggestions and exactly one warning, whose text says the step failed
\* when the call raised and says the response was not parseable otherwise.
C9_OptimisticFallback ==
    (Validated /\ ~AllWhitespace(raw_code) /\ ValAnswerUnusable) =>
        /\ validation.is_valid = TRUE
        /\ validation.details.t = "obj"
        /\ DOMAIN validation.details.v =
             {"is_valid", "errors", "warnings", "completeness_score", "suggestions"}
        /\ validation.details.v["is_valid"] = JBool(TRUE)
        /\ validation.details.v["errors"] = JList(<<>>)
        /\ validation.details.v["completeness_score"] = JFloat(7, -1)
        /\ validation.details.v["suggestions"] = JList(<<>>)
        /\ validation.details.v["warnings"] =
             IF val_llm.kind = "raise"
             THEN JList(<<JStr("Validation step failed; treat code as unvalidated.")>>)
             ELSE JList(<<JStr("Validation response was not parseable; treat as best-effort.")>>)

\* C9 witness: the LLM answered with a JSON array for code "x".
C9_Witness ==
    /\ Validated
    /\ raw_code = <<"x">>
    /\ val_llm = LlmText(TxtArray)
    /\ validation.is_valid = TRUE
    /\ validation.details.v["completeness_score"] = JFloat(7, -1)

\* a number x with 0 <= x <= 1
InUnitInterval(x) ==
    \/ x.t = "num" /\ x.v \in {0, 1}
    \/ /\ x.t = "float"
       /\ x.v.special = "finite"
       /\ x.v.m >= 0
       /\ x.v = JFloat(1, 0).v \/ x.v.m = 0 \/ (x.v.e < 0 /\ (x.v.e < -9 \/ x.v.m <= Pow10(0 - x.v.e)))

\* C10: every Validation Result has the five fields is_valid, errors,
\* warnings, completeness_score and suggestions, its is_valid is a boolean
\* equal to the first element of the returned tuple, and its
\* completeness_score lies in [0,1].
C10_ResultShape ==
    Validated =>
        /\ validation.details.t = "obj"
        /\ DOMAIN validation.details.v =
             {"is_valid", "errors", "warnings", "completeness_score", "suggestions"}
        /\ validation.details.v["is_valid"] = JBool(validation.is_valid)
        /\ InUnitInterval(validation.details.v["completeness_score"])

\* ------------------------------------------------ claims on the requests
Ended == pc = "done"
Remote == variant = "remote"
Terminal == {"COMPLETED", "AWAITING_FEEDBACK", "FAILED"}
MemoryWrites == {"mem_user", "mem_asst"}
\* the messages appended since the request arrived
NewMessages == SubSeq(messages, Len(snap.messages) + 1, Len(messages))
NotFound == (Remote /\ req.user \notin KnownUsers) \/ req.project \notin KnownProjects
PlannerFailed == plan_llm.kind = "raise" \/ Malformed(plan_llm)
ValidatorFailed == val_llm.kind = "raise" \/ Malformed(val_llm)

\* C1: once a request has ended, every Agent Execution Record has left
\* STARTED for exactly one of COMPLETED, AWAITING_FEEDBACK, FAILED and its
\* status has been written exactly once, whatever the external calls did.
C1_ExactlyOneTransition ==
    Ended => \A i \in 1..Len(executions) :
                /\ executions[i].status \in Terminal
                /\ executions[i].writes = 1

\* C2: when generation returned a completion and no stage raised, the
\* response is 201 with success=true; with is_valid false the message is
\* "Code generation completed with warnings" and the remote audit record is
\* AWAITING_FEEDBACK, with is_valid true the message is "Code generation
\* completed" and the record is COMPLETED.
C2_Outcome ==
    (Ended /\ "generate" \in invoked /\ escaped = {}) =>
        /\ resp.status = 201
        /\ resp.body.success = TRUE
        /\ resp.body.message =
             IF validation.is_valid THEN "Code generation completed"
             ELSE "Code generation completed with warnings"
        /\ Remote => executions[execution_id].status =
                        IF validation.is_valid THEN "COMPLETED" ELSE "AWAITING_FEEDBACK"

\* C2 witness: a non-empty completion that the validator's JSON verdict
\* rejects, in the remote variant, answered 201 with the warnings message.
C2_Witness ==
    /\ Ended
    /\ Remote
    /\ raw_code = <<"x">>
    /\ val_llm = LlmText(TxtValFalse)
    /\ resp.status = 201
    /\ resp.body.message = "Code generation completed with warnings"
    /\ executions[execution_id].status = "AWAITING_FEEDBACK"

\* C3: a call failure or malformed answer of the LLM in the Planner or the
\* Validator never fails the request (it ends in 201 when nothing else
\* raised); a call failure in the Code Generator always ends the request
\* with 500 and, in the remote variant, the audit record FAILED, and the
\* Validator is not invoked after it.
C3_FailurePolicy ==
    Ended =>
        /\ ((PlannerFailed \/ ValidatorFailed) /\ escaped = {}) => resp.status = 201
        /\ "gen_llm" \in escaped =>
              /\ resp.status = 500
              /\ "validate" \notin invoked
              /\ Remote => executions[execution_id].status = "FAILED"

\* C4: a request in which nothing but a memory write failed is not answered
\* 500: it ends with the status it has when the write succeeds (201, or 404
\* for a missing user or project).
C4_MemoryWriteNonFatal ==
    (Ended /\ (caught \cup escaped) \cap MemoryWrites # {} /\ escaped \subseteq MemoryWrites) =>
        resp.status = IF NotFound THEN 404 ELSE 201

\* C5 as stated: every successful request has a non-null session_id in its
\* response and has appended to that session exactly one "user" message
\* followed by exactly one "assistant" message.
C5_Original ==
    (Ended /\ resp.status = 201) =>
        /\ resp.body.session_id.kind # "none"
        /\ Len(NewMessages) = 2
        /\ NewMessages[1].role = RoleUser
        /\ NewMessages[2].role = RoleAssistant
        /\ \A i \in 1..2 : NewMessages[i].session_id = resp.body.session_id

\* the roles of a sequence of messages
Roles(msgs) == [i \in 1..Len(msgs) |-> msgs[i].role]

\* C5 amended: in the remote variant a successful request answers with a
\* non-null session_id (the supplied one, or one derived from the execution
\* before the pipeline ran) and has appended to it the "user" message with
\* the requirement and then the "assistant" message with the generated
\* code, each one exactly when its memory write succeeded.  In the local
\* variant no session_id is derived: the response carries the supplied
\* session_id, and the request has appended exactly one "user" and then one
\* "assistant" message when a session_id was supplied and no message
\* otherwise.
C5_SessionAndMessages ==
    (Ended /\ resp.status = 201) =>
        LET sid == resp.body.session_id IN
        /\ \A i \in 1..Len(NewMessages) : NewMessages[i].session_id = sid
        /\ Remote =>
             /\ sid.kind # "none"
             /\ IF req.session_id.kind = "none"
                THEN sid.kind = "derived" /\ sid.exec = resp.body.execution_id
                ELSE sid = req.session_id
             /\ Roles(NewMessages) =
                  (IF "mem_user" \in caught THEN <<>> ELSE <<RoleUser>>)
                  \o (IF "mem_asst" \in caught THEN <<>> ELSE <<RoleAssistant>>)
        /\ ~Remote =>
             /\ sid = req.session_id
             /\ Roles(NewMessages) =
                  IF sid.kind = "none" THEN <<>> ELSE <<RoleUser, RoleAssistant>>
        /\ \A i \in 1..Len(NewMessages) :
             /\ NewMessages[i].role = RoleUser => NewMessages[i].content[3] = req.requirements
             /\ NewMessages[i].role = RoleAssistant => NewMessages[i].content[5] = resp.body.code

\* C5 witness: a remote request without session_id succeeded with a derived
\* session holding its user and its assistant message.
C5_Witness ==
    /\ Ended
    /\ Remote
    /\ resp.status = 201
    /\ req.session_id.kind = "none"
    /\ resp.body.session_id.kind = "derived"
    /\ Roles(NewMessages) = <<RoleUser, RoleAssistant>>

\* C6 as stated: a request whose user or project is not found is answered
\* 404 and leaves all persisted state unchanged.
C6_Original ==
    (Ended /\ NotFound) =>
        /\ resp.status = 404
        /\ Persisted = snap

\* C6 amended: in the remote variant the entity check is the first step: a
\* request whose user or project is not found is answered 404 and leaves
\* all persisted state unchanged.  In the local variant the project lookup
\* follows the session memory step: a request whose project is not found is
\* answered 404 unless that memory step raised (then the answer is the
\* error's: the status of an HTTPException, 500 for any other exception);
\* it creates no audit record and appends no "assistant" message, and when
\* a session_id was supplied and the memory step succeeded it has appended
\* the "user" message.
C6_NotFound ==
    (Ended /\ NotFound) =>
        /\ Remote => resp.status = 404 /\ Persisted = snap
        /\ ~Remote =>
             /\ escaped = {} => resp.status = 404
             /\ \A call \in escaped : \E e \in Raisable(call) : resp = Framework(e)
             /\ executions = snap.executions
             /\ agent_defs = snap.agent_defs
             /\ \A i \in 1..Len(NewMessages) : NewMessages[i].role # RoleAssistant
             /\ (req.session_id.kind = "none") => Persisted = snap
             /\ (req.session_id.kind # "none" /\ escaped = {}) =>
                   Roles(NewMessages) = <<RoleUser>>

\* C6 witness: a local request with a session_id for a missing project was
\* answered 404 after its "user" message was stored.
C6_Witness ==
    /\ Ended
    /\ ~Remote
    /\ NotFound
    /\ req.session_id.kind = "given"
    /\ resp.status = 404
    /\ Roles(NewMessages) = <<RoleUser>>


\* ------------------------------------- claims on the exemplar finder
Searched == "search" \in invoked
Pool == context.code_sections

\* deep_search was called and returned a dict with this key
HasChosen ==
    /\ search_call.called
    /\ search_call.result.t = "obj"
    /\ "chosen_section_index" \in DOMAIN search_call.result.v
Chosen == search_call.result.v.chosen_section_index
SearchRaised == "search" \in escaped

\* the section an exemplar of index i must come from
ExemplarOf(sections, i) ==
    [index |-> i,
     artifact_name |-> sections[i + 1].artifact_name,
     document_name |-> sections[i + 1].document_name,
     section_name |-> sections[i + 1].section_name,
     description |-> sections[i + 1].description]

Indices(exs) == [k \in 1..Len(exs) |-> exs[k].index]
FirstN(s, k) == SubSeq(s, 1, IF k < Len(s) THEN k ELSE Len(s))
NoIndexTwice(exs) ==
    \A j, k \in 1..Len(exs) : j # k => exs[j].index # exs[k].index

\* c, then the members of c-1, c+1, c-2, c+2 that index one of n sections
ProbeOrder(c, n) ==
    <<c>> \o SelectSeq(<<c - 1, c + 1, c - 2, c + 2>>, LAMBDA i : 0 <= i /\ i < n)

\* the search chose an index c of the pool, 0 <= c < n
ChoseInRange ==
    /\ Searched
    /\ Pool # <<>>
    /\ HasChosen
    /\ Chosen.t = "num"
    /\ 0 <= Chosen.v
    /\ Chosen.v < Len(Pool)

\* C11 as stated: for a chosen index c in range and a cap max_exemplars, the
\* result is the first max_exemplars elements of c, c-1, c+1, c-2, c+2 (in
\* range ones only), so it is never longer than the cap and repeats no index.
C11_Original ==
    ChoseInRange =>
        /\ ~SearchRaised
        /\ Indices(exemplars)
             = FirstN(ProbeOrder(Chosen.v, Len(Pool)), search_call.max_exemplars)
        /\ Len(exemplars) <= search_call.max_exemplars
        /\ NoIndexTwice(exemplars)

\* C11 amended: the exemplar at c is always returned; for a cap of at least
\* 1 the result is the first max_exemplars elements of the probe sequence,
\* and for a cap below 1 it is the exemplar at c alone.  No index is repeated
\* and every exemplar is built from the section at its index.
C11_Neighbourhood ==
    ChoseInRange =>
        /\ ~SearchRaised
        /\ Indices(exemplars)
             = FirstN(ProbeOrder(Chosen.v, Len(Pool)),
                      IF search_call.max_exemplars < 1 THEN 1
                      ELSE search_call.max_exemplars)
        /\ search_call.max_exemplars >= 1 => Len(exemplars) <= search_call.max_exemplars
        /\ NoIndexTwice(exemplars)
        /\ \A k \in 1..Len(exemplars) :
              exemplars[k] = ExemplarOf(Pool, exemplars[k].index)

\* five sections, index 0 chosen, cap 4: the exemplars are those at 0, 1, 2
C11_Witness ==
    /\ ChoseInRange
    /\ Len(Pool) = 5
    /\ Chosen.v = 0
    /\ search_call.max_exemplars = 4
    /\ Indices(exemplars) = <<0, 1, 2>>


\* the degenerate cases of the search: no sections, an answer that is not a
\* dict, no chosen_section_index in it, or one that is not an integer (null,
\* a string, a float, a boolean)
EmptyPool == Pool = <<>>
NonObject == search_call.called /\ search_call.result.t # "obj"
IndexMissing ==
    /\ search_call.called
    /\ search_call.result.t = "obj"
    /\ "chosen_section_index" \notin DOMAIN search_call.result.v
IndexNotInt == HasChosen /\ Chosen.t # "num"

\* C12: when the pool is empty, deep_search returns a non-object, or its
\* chosen_section_index is missing or not an integer, find_function_exemplars
\* returns the empty list and raises nothing; on an empty pool deep_search
\* is not called.
C12_DegenerateEmpty ==
    (Searched /\ (EmptyPool \/ NonObject \/ IndexMissing \/ IndexNotInt)) =>
        /\ exemplars = <<>>
        /\ ~SearchRaised
        /\ exc = NoException
        /\ EmptyPool => ~search_call.called


\* ------------------------------------- claims on the context loader
ContextLoaded ==
    invoked \cap {"load_coder_context", "load_coder_context_sqlite"} # {}

\* every spelling of "code" that differs only in case
CodeNames ==
    {<<c, o, d, e>> : c \in {"c", "C"}, o \in {"o", "O"}, d \in {"d", "D"}, e \in {"e", "E"}}

\* the sections of the Code artifact, in their original order
CodeOnly(all_sections) ==
    SelectSeq(all_sections, LAMBDA entry : entry.artifact_name \in CodeNames)

\* C13: after load_coder_context or load_coder_context_sqlite, code_sections
\* is the subsequence of the flattened sections whose artifact name is "code"
\* in any letter case, in order, when there is one, and the whole flattened
\* sequence otherwise; it is empty only when there are no sections.
C13_ExemplarPool ==
    ContextLoaded =>
        /\ context.code_sections
             = (IF CodeOnly(context.project_data) # <<>>
                THEN CodeOnly(context.project_data)
                ELSE context.project_data)
        /\ context.code_sections = <<>> => context.project_data = <<>>

\* the local loader keeps the two Code sections, in order, and drops the other
C13_Witness ==
    /\ "load_coder_context_sqlite" \in invoked
    /\ context.project_data = <<SecCodeUpper, SecBrd, SecCode>>
    /\ context.code_sections = <<SecCodeUpper, SecCode>>


\* C16: for any integer chosen_section_index, below 0 and at least n
\* included, find_function_exemplars raises nothing and every exemplar it
\* returns has an index i with 0 <= i < n and the other fields of section i.
C16_IndexSafe ==
    (Searched /\ Pool # <<>> /\ HasChosen /\ Chosen.t = "num") =>
        /\ ~SearchRaised
        /\ \A k \in 1..Len(exemplars) :
              /\ 0 <= exemplars[k].index
              /\ exemplars[k].index < Len(Pool)
              /\ exemplars[k] = ExemplarOf(Pool, exemplars[k].index)

\* --------------------------- claims on the tribal knowledge loader
\* project_type.strip().lower(), the key the claims speak of
Normalized(project_type) == Lower(Strip(project_type))

\* a step that is a call of load_tribal_kb leaving the cache changed, or
\* answering for another type than the call before
Looked == tribal_call' # tribal_call \/ tribal_cache' # tribal_cache

\* C14: a lookup whose project type normalizes to the key of an earlier
\* lookup is answered from the cache with the earlier result, the file is
\* not read again.  (Stated while the cache holds fewer than its 32 entries.)
C14_NormalizedKey ==
    [][(/\ Looked
        /\ Len(tribal_cache) < TribalCacheSize
        /\ \E earlier \in looked_up :
              Normalized(earlier) = Normalized(tribal_call'.project_type))
       => tribal_call'.hit]_vars

\* C15: a project type that has been looked up once is answered from the
\* cache on every later lookup, whatever was looked up in between, and no
\* cache entry is ever removed or replaced.
C15_NeverInvalidated ==
    [][/\ (Looked /\ tribal_call'.project_type \in looked_up) => tribal_call'.hit
       /\ \A i \in 1..Len(tribal_cache) :
             \E j \in 1..Len(tribal_cache') : tribal_cache'[j] = tribal_cache[i]]_vars

====
